---- MODULE Spec2Model ----
(***************************************************************************)
(* Worker launcher of the batch transcriber: the single admission slot     *)
(* ACTIVE_PROCESS, launch(), the stream task spawned by launch(), stop(),  *)
(* and the history archive both of them write to.                          *)
(*                                                                         *)
(* Every lock acquisition in the source that is released before the next   *)
(* one is taken is one atomic action here.  The only lock held across a    *)
(* blocking call is the child mutex inside wait_for_exit_code, so that     *)
(* function is two actions (lock, then return) and childLock records its   *)
(* holder.                                                                 *)
(*                                                                         *)
(* The operations that run outside a session have specifications of their  *)
(* own over the same variables: archive() on the history database          *)
(* (SpecHistory), generate_manifest with its file-system steps             *)
(* (SpecManifest), the notification decision (SpecNotify), the stdout      *)
(* reader fed through a pipe with any kind of line (SpecReader), archive   *)
(* and delete on the history database (SpecStore), resolve_provider over   *)
(* model strings and machines (SpecResolve), start_transcription from its  *)
(* arguments to the start event (SpecStart), the registry probes with     *)
(* their child process (SpecProbe, FairSpecProbe), the stream task with    *)
(* its stderr thread (SpecStreams, FairSpecStreams, FairSpecExit), one     *)
(* session from start_transcription to the deletion of its record          *)
(* (SpecLifecycle), the stdout loop over repeated events (SpecAccum),      *)
(* archive() statement by statement next to list() (SpecIsolation), two    *)
(* sessions handing the slot over through stop() (SpecHandover), and the   *)
(* arguments of a native worker (SpecVersion).                             *)
(***************************************************************************)
EXTENDS Integers, Sequences, FiniteSets, TLC

\* ---------------------------------------------------------------- bounds
\* stdout lines a worker writes in one session
MaxLines == 1
\* polls of the stop loop before the deadline STOP_TIMEOUT is reached
GracePolls == 1
\* calls of stop() made over a run
MaxStops == 2

\* session ids handed to launch() (fresh UUIDs of generate_manifest)
SessionIds == {"A", "B"}
\* the session of the first start_transcription call
FirstSession == "A"
\* paths of the files listed in every manifest
Files == {"f1", "f2"}
\* exit codes a worker can end with by itself
ExitCodes == {0, 1, 2}

\* ------------------------------------------------------------- u64
\* A u64 quantity is the pair (hi, lo) of value = hi * 2^31 + lo with
\* 0 <= lo < 2^31: the values up to i32::MAX are exactly those with hi = 0.
U64(n) == [hi |-> 0, lo |-> n]
\* 2^31 + n, a value that does not fit an i32
U64Above(n) == [hi |-> 1, lo |-> n]

\* summaries a worker can report
Summaries ==
    {[total |-> U64(2), processed |-> U64(1), skipped |-> U64(0), failed |-> U64(1)]}

\* ------------------------------------------------------- Option<T>
None == <<>>
Some(x) == <<x>>
IsSome(o) == o /= <<>>
Unwrap(o) == o[1]
UnwrapOr(o, d) == IF o = <<>> THEN d ELSE o[1]

\* ------------------------------------------------------- strings
\* A string whose characters matter is the sequence of its characters.
Whitespace == {" ", "\t"}

RECURSIVE TrimStart(_)
TrimStart(str) ==
    IF str /= <<>> /\ Head(str) \in Whitespace THEN TrimStart(Tail(str)) ELSE str

RECURSIVE TrimEnd(_)
TrimEnd(str) ==
    IF str /= <<>> /\ str[Len(str)] \in Whitespace
    THEN TrimEnd(SubSeq(str, 1, Len(str) - 1))
    ELSE str

\* str::trim
Trim(str) == TrimEnd(TrimStart(str))

VARIABLES
    ACTIVE_PROCESS, \* Option<ActiveProcess>: the admission slot
    launchPc,       \* position of launch(s)
    launchResult,   \* Option<Result> returned by launch(s)
    proc,           \* worker process of session s: "none", "running", "exited"
    procStatus,     \* Option<i32> ExitStatus::code() of an exited worker
    stdoutOpen,     \* the worker still holds the write end of stdout
    stderrOpen,     \* the worker still holds the write end of stderr
    signals,        \* signals delivered to the worker of s
    childLock,      \* holder of the Mutex<Child> of s: "free", "stream", "stop"
    streamPc,       \* position of the stream task of s
    linesRead,      \* stdout lines the stream task of s has consumed
    latest_summary, \* Option<SessionSummary> of the stream task
    fatal_error,    \* Option<String> of the stream task: the error of the last
                    \* fatal_error event
    file_outcomes,  \* HashMap<path, FileOutcome> of the stream task
    streamExit,     \* exit_code local of the stream task
    history,        \* history database: the rows of the tables sessions and
                    \* session_files
    archiveLog,     \* per session id, the status of every committed
                    \* save_session_record, in commit order
    lastArchive,    \* per session id, the arguments of the last committed
                    \* archive_session_with_path whose record is stored
    deletes,        \* delete_session calls made so far and the last of them
    txn,            \* the save_session_record call in progress: its position,
                    \* its record, the rows as its transaction sees them, the
                    \* rows as they were when it began, and how the last call
                    \* that returned ended
    listing,        \* the get_sessions_with_path call in progress: its
                    \* position, the session rows still to visit, the
                    \* records built so far, and the rows as they were when
                    \* it began
    emitted,        \* lifecycle events emitted for s, in emission order
    notified,       \* notification of the stream task: "pending", "none", ...
    stopPc,         \* position of the stop() call in progress
    stopReq,        \* session_id argument of stop()
    stopPolls,      \* sleeps of the poll loop so far
    graceful,       \* graceful local of stop()
    stopExit,       \* exit_code local of stop()
    stopResult,     \* Option<Result> of the last stop() call
    stopCalls,      \* stop() calls made so far
    stopOutcome,    \* per session, how far the last stop() that matched it got:
                    \* "none", "attempted", "ok" (returned Ok), "err"
    stdoutPipe,     \* stdout lines of the worker of s not read yet, oldest first
    stdoutWritten,  \* every stdout line the worker of s has written, in order
    stderrTask,     \* the stderr thread of s: the stderr lines not read yet,
                    \* the lines it has taken, and whether its loop has ended
                    \* before the end of the stream
    notifyArgs,     \* Option: arguments of the maybe_show_session_notification
                    \* call made
    notifySent,     \* the notification that call sent: "none", "completion",
                    \* "failure"
    genPc,          \* position of the generate_manifest call
    genArgs,        \* Option: arguments of the generate_manifest call
    genManifest,    \* Option<SessionManifest> built by generate_manifest
    fs,             \* sessions directory: Option<file content> per path
    tmpSynced,      \* sync_all has returned for the temporary file
    genResult,      \* Option<Result> returned by generate_manifest
    resolveCall,    \* Option: arguments and result of the resolve_provider
                    \* call made
    start,          \* the start_transcription call in progress: its position,
                    \* arguments and locals, the state it was called in, and
                    \* the result of the last call that returned
    outputDirs,     \* the output directories that exist
    probe           \* the registry probe in progress: its position, the
                    \* runner it uses, the time elapsed, its child process,
                    \* and the answer of the last probe that returned

vars == <<ACTIVE_PROCESS, launchPc, launchResult, proc, procStatus, stdoutOpen,
          stderrOpen, signals, childLock, streamPc, linesRead, latest_summary,
          fatal_error, file_outcomes, streamExit, history, archiveLog, lastArchive, deletes,
          txn, listing, emitted, notified,
          stopPc, stopReq, stopPolls, graceful, stopExit, stopResult, stopCalls,
          stopOutcome, stdoutPipe, stdoutWritten, stderrTask, notifyArgs, notifySent, genPc, genArgs,
          genManifest, fs, tmpSynced, genResult, resolveCall, start, outputDirs,
          probe>>

launchVars == <<launchPc, launchResult>>
procVars == <<proc, procStatus, stdoutOpen, stderrOpen>>
streamVars == <<streamPc, linesRead, latest_summary, fatal_error, file_outcomes, streamExit,
                notified>>
stopVars == <<stopPc, stopReq, stopPolls, graceful, stopExit, stopResult,
              stopCalls, stopOutcome>>
storeVars == <<history, archiveLog, lastArchive, deletes, txn, listing>>
pipeVars == <<stdoutPipe, stdoutWritten, stderrTask>>
notifyVars == <<notifyArgs, notifySent>>
\* state of the operations that run outside a session
manifestVars == <<genPc, genArgs, genManifest, fs, tmpSynced, genResult>>
\* state of the operations that run before a launch
frontVars == <<resolveCall, start, outputDirs, probe>>
sideVars == <<notifyVars, manifestVars, frontVars>>

\* ------------------------------------------------------------ data
ManifestPath(s) == <<"sessions", s, "json">>

\* the temporary file is written where the manifest goes
TmpPathInPlace(s) == ManifestPath(s)

\* manifest.rs line 124
TmpPath(s) == <<"sessions", s, "tmp">>

\* the files generate_manifest can touch
SessionPaths == {ManifestPath(s) : s \in SessionIds} \cup {TmpPath(s) : s \in SessionIds}

\* start_transcription passes the ids of the queued items
QueuedItemIds == Files

\* FileEntry of a manifest
FileEntry(id, path, status) == [id |-> id, path |-> path, status |-> status]

\* the files of the manifest written for every session: each queued item,
\* declared "queued"
ManifestFiles == <<FileEntry("f1", "f1", "queued"), FileEntry("f2", "f2", "queued")>>

ActiveProcess(s) ==
    [session_id |-> s, manifest_path |-> ManifestPath(s),
     queued_item_ids |-> QueuedItemIds, child |-> s]

EmptyOutcomes == [f \in {} |-> "success"]

\* the history database right after init_database on a new file
EmptyDatabase == [sessions |-> {}, session_files |-> {}]

\* no save_session_record call is in progress; result is how the last one
\* ended
IdleTxn(result) ==
    [pc |-> "idle", id |-> "", in |-> None, session |-> None,
     db |-> EmptyDatabase, before |-> EmptyDatabase, rest |-> <<>>,
     result |-> result]

\* no get_sessions_with_path call is in progress; calls have returned so far
\* and result is what the last one returned
IdleListing(calls, result) ==
    [pc |-> "idle", calls |-> calls, rows |-> <<>>, result |-> result,
     at |-> EmptyDatabase]

Init ==
    /\ ACTIVE_PROCESS = None
    /\ launchPc = [s \in SessionIds |-> "idle"]
    /\ launchResult = [s \in SessionIds |-> None]
    /\ proc = [s \in SessionIds |-> "none"]
    /\ procStatus = [s \in SessionIds |-> None]
    /\ stdoutOpen = [s \in SessionIds |-> FALSE]
    /\ stderrOpen = [s \in SessionIds |-> FALSE]
    /\ signals = [s \in SessionIds |-> {}]
    /\ childLock = [s \in SessionIds |-> "free"]
    /\ streamPc = [s \in SessionIds |-> "none"]
    /\ linesRead = [s \in SessionIds |-> 0]
    /\ latest_summary = [s \in SessionIds |-> None]
    /\ fatal_error = [s \in SessionIds |-> None]
    /\ file_outcomes = [s \in SessionIds |-> EmptyOutcomes]
    /\ streamExit = [s \in SessionIds |-> 0]
    /\ history = EmptyDatabase
    /\ archiveLog = [s \in SessionIds |-> <<>>]
    /\ lastArchive = [s \in SessionIds |-> None]
    /\ deletes = [calls |-> 0, last |-> None]
    /\ txn = IdleTxn(None)
    /\ listing = IdleListing(0, <<>>)
    /\ emitted = [s \in SessionIds |-> <<>>]
    /\ notified = [s \in SessionIds |-> "pending"]
    /\ stopPc = "idle"
    /\ stopReq = "A"
    /\ stopPolls = 0
    /\ graceful = FALSE
    /\ stopExit = 0
    /\ stopResult = None
    /\ stopCalls = 0
    /\ stopOutcome = [s \in SessionIds |-> "none"]
    /\ stdoutPipe = [s \in SessionIds |-> <<>>]
    /\ stdoutWritten = [s \in SessionIds |-> <<>>]
    /\ stderrTask = [s \in SessionIds |->
                        [pipe |-> <<>>, taken |-> <<>>, ended |-> FALSE]]
    /\ notifyArgs = None
    /\ notifySent = "none"
    /\ genPc = "idle"
    /\ genArgs = None
    /\ genManifest = None
    /\ fs = [path \in SessionPaths |-> None]
    /\ tmpSynced = FALSE
    /\ genResult = None
    /\ resolveCall = None
    /\ start = [pc |-> "idle", calls |-> 0, sessions |-> 0, args |-> None,
                runtime |-> None, before |-> None, result |-> None,
                cause |-> "none"]
    /\ outputDirs = {}
    /\ probe = [pc |-> "idle", calls |-> 0, op |-> "check_available",
                runtime |-> "SwiftNative", runner |-> "timeout", elapsed |-> 0,
                child |-> "none", success |-> FALSE, stdout |-> "garbage",
                result |-> None]

Emit(s, ev) == emitted' = [emitted EXCEPT ![s] = Append(@, ev)]

Ok == [ok |-> TRUE, error |-> <<>>]
Err(msg) == [ok |-> FALSE, error |-> msg]

\* ------------------------------------------------- history (pure part)
\* a file without an outcome always keeps the status its manifest declares
DefaultFileStatusDeclared(status, entry_status) == entry_status

\* status of a manifest file that has no entry in the outcome map
DefaultFileStatus(status, entry_status) ==
    IF status = "cancelled" THEN "cancelled"
    ELSE IF status = "failed" THEN "failed"
    ELSE entry_status

I32_MAX == 2147483647

\* values that do not fit an i32 wrap around as a cast would
ToI32Wrapping(value) == value.lo

\* lines 173-175: i32::try_from(value).unwrap_or(i32::MAX)
ToI32(value) == IF value.hi > 0 THEN I32_MAX ELSE value.lo

CountStatus(files, st) ==
    Cardinality({i \in 1..Len(files) : files[i].status = st})

\* lines 177-189
SummarizeFromFiles(files) ==
    [total |-> U64(Len(files)),
     processed |-> U64(CountStatus(files, "success")),
     skipped |-> U64(CountStatus(files, "skipped")),
     failed |-> U64(CountStatus(files, "failed"))]

\* HashMap::get
Get(map, key) == IF key \in DOMAIN map THEN Some(map[key]) ELSE None

\* lines 203-226: the row of one manifest entry
SessionFileRecord(entry, status, outcomes) ==
    LET outcome == Get(outcomes, entry.path)
    IN [id |-> entry.id,
        path |-> entry.path,
        status |-> IF IsSome(outcome) THEN Unwrap(outcome).status
                   ELSE DefaultFileStatus(status, entry.status),
        transcript_path |-> IF IsSome(outcome) THEN Unwrap(outcome).transcript_path
                            ELSE None,
        json_path |-> IF IsSome(outcome) THEN Unwrap(outcome).json_path ELSE None,
        error |-> IF IsSome(outcome) THEN Unwrap(outcome).error ELSE None]

\* lines 191-248; manifest is the list of FileEntry of the manifest
BuildSessionRecord(manifest, session_id, summary, exit_code, status, outcomes) ==
    LET files == [i \in 1..Len(manifest) |->
                    SessionFileRecord(manifest[i], status, outcomes)]
        sm == IF IsSome(summary) THEN Unwrap(summary) ELSE SummarizeFromFiles(files)
    IN [id |-> session_id,
        total |-> ToI32(sm.total),
        processed |-> ToI32(sm.processed),
        skipped |-> ToI32(sm.skipped),
        failed |-> ToI32(sm.failed),
        exit_code |-> exit_code,
        status |-> status,
        files |-> files]

\* --------------------------------------------- history (the database)
\* the row of table sessions for a record
SessionRow(session) ==
    [id |-> session.id, total |-> session.total, processed |-> session.processed,
     skipped |-> session.skipped, failed |-> session.failed,
     exit_code |-> session.exit_code, status |-> session.status]

\* the row of table session_files for one file of a record
FileRow(session_id, file) ==
    [session_id |-> session_id, file_id |-> file.id, path |-> file.path,
     status |-> file.status, transcript_path |-> file.transcript_path,
     json_path |-> file.json_path, error |-> file.error]

\* PRIMARY KEY (session_id, file_id, path)
FileKey(row) == <<row.session_id, row.file_id, row.path>>

\* lines 255-278: INSERT OR REPLACE INTO sessions.  A row with the same id is
\* deleted first, and with it (ON DELETE CASCADE under foreign_keys = ON) the
\* session_files rows that reference it.
ReplaceSession(db, row) ==
    [sessions |-> {r \in db.sessions : r.id /= row.id} \cup {row},
     session_files |->
        IF \E r \in db.sessions : r.id = row.id
        THEN {f \in db.session_files : f.session_id /= row.id}
        ELSE db.session_files]

\* lines 280-290: DELETE FROM session_files WHERE session_id = ?
DeleteSessionFiles(db, session_id) ==
    [db EXCEPT !.session_files = {f \in @ : f.session_id /= session_id}]

\* lines 292-317: INSERT INTO session_files, one file after the other; None
\* when an INSERT hits the primary key of a row that is already there
RECURSIVE InsertSessionFiles(_, _, _)
InsertSessionFiles(db, session_id, files) ==
    IF files = <<>> THEN Some(db)
    ELSE LET row == FileRow(session_id, Head(files))
         IN IF \E f \in db.session_files : FileKey(f) = FileKey(row)
            THEN None
            ELSE InsertSessionFiles([db EXCEPT !.session_files = @ \cup {row}],
                                    session_id, Tail(files))

\* a save that updates the session row and adds the file rows that are not
\* there yet, without clearing the rows of the session first
SaveSessionRecordAppend(db, session) ==
    [ok |-> TRUE,
     db |-> [sessions |-> {r \in db.sessions : r.id /= session.id}
                            \cup {SessionRow(session)},
             session_files |-> db.session_files \cup
                {FileRow(session.id, session.files[i]) : i \in 1..Len(session.files)}]]

\* lines 250-323: the three statements in one transaction, which is rolled
\* back when a statement fails
SaveSessionRecord(db, session) ==
    LET replaced == ReplaceSession(db, SessionRow(session))
        cleared == DeleteSessionFiles(replaced, session.id)
        inserted == InsertSessionFiles(cleared, session.id, session.files)
    IN IF IsSome(inserted)
       THEN [ok |-> TRUE, db |-> Unwrap(inserted)]
       ELSE [ok |-> FALSE, db |-> db]

\* lines 362-445: the session row list() returns for an id
StoredRecord(s) ==
    IF \E r \in history.sessions : r.id = s
    THEN Some(CHOOSE r \in history.sessions : r.id = s)
    ELSE None

\* lines 325-360: the file rows list() returns for an id
StoredFiles(s) == {f \in history.session_files : f.session_id = s}

\* lines 466-506: archive_session_with_path.  The record is built from the
\* manifest and upserted; ok = FALSE is a failure of reading the manifest, of
\* opening the database or of the commit.  Every failure leaves the database
\* as it was.
ArchiveSession(manifest, s, summary, exit_code, status, outcomes, ok) ==
    LET saved == SaveSessionRecord(history,
                    BuildSessionRecord(manifest, s, summary, exit_code, status,
                                       outcomes))
    IN IF ok /\ saved.ok
       THEN /\ history' = saved.db
            /\ archiveLog' = [archiveLog EXCEPT ![s] = Append(@, status)]
            /\ lastArchive' = [lastArchive EXCEPT ![s] =
                    Some([manifest |-> manifest, summary |-> summary,
                          exit_code |-> exit_code, status |-> status,
                          outcomes |-> outcomes])]
            /\ UNCHANGED <<deletes, txn, listing>>
       ELSE UNCHANGED storeVars

\* ------------------------------------------------------------ launch()
\* the admission check without its guard
LaunchCheckUnguarded(s) ==
    /\ launchPc[s] = "idle"
    /\ launchPc' = [launchPc EXCEPT ![s] = "admitted"]
    /\ UNCHANGED <<ACTIVE_PROCESS, launchResult, procVars, signals, childLock,
                   streamVars, storeVars, pipeVars, sideVars, emitted, stopVars>>

\* lines 411-418: the admission check, under the ACTIVE_PROCESS lock
LaunchCheck(s) ==
    /\ launchPc[s] = "idle"
    /\ IF IsSome(ACTIVE_PROCESS)
       THEN /\ launchPc' = [launchPc EXCEPT ![s] = "returned"]
            /\ launchResult' = [launchResult EXCEPT ![s] =
                    Some(Err(<<"A transcription session is already running">>))]
       ELSE /\ launchPc' = [launchPc EXCEPT ![s] = "admitted"]
            /\ UNCHANGED launchResult
    /\ UNCHANGED <<ACTIVE_PROCESS, procVars, signals, childLock, streamVars,
                   storeVars, pipeVars, sideVars, emitted, stopVars>>

\* lines 420-430: worker_started is emitted
LaunchEmitStarted(s) ==
    /\ launchPc[s] = "admitted"
    /\ launchPc' = [launchPc EXCEPT ![s] = "emitted"]
    /\ Emit(s, [event |-> "worker_started", session_id |-> s])
    /\ UNCHANGED <<ACTIVE_PROCESS, launchResult, procVars, signals, childLock,
                   streamVars, storeVars, pipeVars, sideVars, stopVars>>

\* lines 432-446: the command is spawned with both pipes captured
LaunchSpawn(s) ==
    /\ launchPc[s] = "emitted"
    /\ \E spawned \in BOOLEAN :
         IF spawned
         THEN /\ launchPc' = [launchPc EXCEPT ![s] = "spawned"]
              /\ proc' = [proc EXCEPT ![s] = "running"]
              /\ stdoutOpen' = [stdoutOpen EXCEPT ![s] = TRUE]
              /\ stderrOpen' = [stderrOpen EXCEPT ![s] = TRUE]
              /\ UNCHANGED launchResult
         ELSE /\ launchPc' = [launchPc EXCEPT ![s] = "returned"]
              /\ launchResult' = [launchResult EXCEPT ![s] =
                      Some(Err(<<"Failed to launch worker">>))]
              /\ UNCHANGED <<proc, stdoutOpen, stderrOpen>>
    /\ UNCHANGED <<ACTIVE_PROCESS, procStatus, signals, childLock, streamVars,
                   storeVars, pipeVars, sideVars, emitted, stopVars>>

\* lines 448-560: the ActiveProcess is stored, the stream task is spawned and
\* launch() returns the WorkerProcess
LaunchRegister(s) ==
    /\ launchPc[s] = "spawned"
    /\ ACTIVE_PROCESS' = Some(ActiveProcess(s))
    /\ streamPc' = [streamPc EXCEPT ![s] = "reading"]
    /\ launchPc' = [launchPc EXCEPT ![s] = "returned"]
    /\ launchResult' = [launchResult EXCEPT ![s] = Some(Ok)]
    /\ UNCHANGED <<procVars, signals, childLock, linesRead, latest_summary,
                   fatal_error, file_outcomes, streamExit, notified, storeVars, pipeVars, sideVars, emitted,
                   stopVars>>

\* --------------------------------------------------------- the worker
\* stdout lines a worker writes in a run that looks at the reader alone
MaxPipeLines == 3

\* the lines such a worker writes: two protocol events, an empty line, a
\* whitespace-only line, a line of text that is no JSON, and a line of bytes
\* that are not valid UTF-8
PipeLines ==
    {[kind |-> "json",
      value |-> [event |-> "file_failed", file |-> "f1", error |-> "decode"]],
     [kind |-> "json",
      value |-> [event |-> "summary", total |-> [hi |-> 0, lo |-> 2],
                 processed |-> [hi |-> 0, lo |-> 1], skipped |-> [hi |-> 0, lo |-> 0],
                 failed |-> [hi |-> 0, lo |-> 1]]],
     [kind |-> "text", text |-> <<>>],
     [kind |-> "text", text |-> <<" ">>],
     [kind |-> "text", text |-> <<"x">>],
     [kind |-> "bytes", text |-> <<"y">>]}

\* the worker ends by itself with an exit code, or is ended by a signal that
\* did not come from stop() (code() is then None); its pipes close with it
WorkerExit(s) ==
    /\ proc[s] = "running"
    /\ \E st \in {Some(c) : c \in ExitCodes} \cup {None} :
         procStatus' = [procStatus EXCEPT ![s] = st]
    /\ proc' = [proc EXCEPT ![s] = "exited"]
    /\ stdoutOpen' = [stdoutOpen EXCEPT ![s] = FALSE]
    /\ stderrOpen' = [stderrOpen EXCEPT ![s] = FALSE]
    /\ UNCHANGED <<ACTIVE_PROCESS, launchVars, signals, childLock, streamVars,
                   storeVars, pipeVars, sideVars, emitted, stopVars>>

\* a running worker writes one line out of lines on its stdout
WorkerWrite(s, lines) ==
    /\ proc[s] = "running"
    /\ stdoutOpen[s]
    /\ Len(stdoutWritten[s]) < MaxPipeLines
    /\ \E line \in lines :
         /\ stdoutPipe' = [stdoutPipe EXCEPT ![s] = Append(@, line)]
         /\ stdoutWritten' = [stdoutWritten EXCEPT ![s] = Append(@, line)]
    /\ UNCHANGED <<ACTIVE_PROCESS, launchVars, procVars, signals, childLock,
                   streamVars, storeVars, sideVars, emitted, stopVars,
                   stderrTask>>

WorkerWriteLine(s) == WorkerWrite(s, PipeLines)

\* stderr lines a worker writes in one session
MaxStderrLines == 2

\* a running worker writes one line on its stderr
WorkerWriteStderr(s, lines) ==
    /\ proc[s] = "running"
    /\ stderrOpen[s]
    /\ Len(stderrTask[s].pipe) + Len(stderrTask[s].taken) < MaxStderrLines
    /\ \E line \in lines :
         stderrTask' = [stderrTask EXCEPT ![s].pipe = Append(@, line)]
    /\ UNCHANGED <<ACTIVE_PROCESS, launchVars, procVars, signals, childLock,
                   streamVars, storeVars, sideVars, emitted, stopVars,
                   stdoutPipe, stdoutWritten>>

\* a running worker closes its stdout
WorkerCloseStdout(s) ==
    /\ proc[s] = "running"
    /\ stdoutOpen[s]
    /\ stdoutOpen' = [stdoutOpen EXCEPT ![s] = FALSE]
    /\ UNCHANGED <<ACTIVE_PROCESS, launchVars, proc, procStatus, stderrOpen,
                   signals, childLock, streamVars, storeVars, pipeVars, sideVars, emitted, stopVars>>

\* a running worker closes its stderr
WorkerCloseStderr(s) ==
    /\ proc[s] = "running"
    /\ stderrOpen[s]
    /\ stderrOpen' = [stderrOpen EXCEPT ![s] = FALSE]
    /\ UNCHANGED <<ACTIVE_PROCESS, launchVars, proc, procStatus, stdoutOpen,
                   signals, childLock, streamVars, storeVars, pipeVars, sideVars, emitted, stopVars>>

\* Child::kill on the handle of s: SIGKILL ends a running worker at once
Killed(s) ==
    /\ signals' = [signals EXCEPT ![s] = @ \cup {"KILL"}]
    /\ IF proc[s] = "running"
       THEN /\ proc' = [proc EXCEPT ![s] = "exited"]
            /\ procStatus' = [procStatus EXCEPT ![s] = None]
            /\ stdoutOpen' = [stdoutOpen EXCEPT ![s] = FALSE]
            /\ stderrOpen' = [stderrOpen EXCEPT ![s] = FALSE]
       ELSE UNCHANGED procVars

\* ---------------------------------------------------- the event protocol
\* lines a worker writes on stdout: per-file outcome events and summaries
\* A JSON object is a record; Get reads a key that may be missing.
WorkerLines ==
    {[event |-> "file_done", file |-> f,
      output |-> [txt |-> <<f, "txt">>, json |-> <<f, "json">>]] : f \in Files}
        \cup {[event |-> "file_skipped", file |-> f, reason |-> "exists"] : f \in Files}
        \cup {[event |-> "file_failed", file |-> f, error |-> "decode"] : f \in Files}
        \cup {[event |-> "summary", total |-> sm.total, processed |-> sm.processed,
                skipped |-> sm.skipped, failed |-> sm.failed] : sm \in Summaries}

\* value.get(key).and_then(|entry| entry.get(inner))
GetIn(value, key, inner) ==
    IF IsSome(Get(value, key)) THEN Get(Unwrap(Get(value, key)), inner) ELSE None

\* lines 131-146; a number that is missing reads as 0
ParseSummaryEvent(value) ==
    IF Get(value, "event") /= Some("summary") THEN None
    ELSE Some([total |-> UnwrapOr(Get(value, "total"), U64(0)),
               processed |-> UnwrapOr(Get(value, "processed"), U64(0)),
               skipped |-> UnwrapOr(Get(value, "skipped"), U64(0)),
               failed |-> UnwrapOr(Get(value, "failed"), U64(0))])

\* lines 148-157; an error that is no string reads as a missing one
ParseFatalError(value) ==
    IF Get(value, "event") /= Some("fatal_error") THEN None
    ELSE Get(value, "error")

FileOutcome(status, transcript_path, json_path, error) ==
    [status |-> status, transcript_path |-> transcript_path,
     json_path |-> json_path, error |-> error]

\* lines 159-216
ParseFileOutcome(value) ==
    IF ~IsSome(Get(value, "event")) \/ ~IsSome(Get(value, "file")) THEN None
    ELSE IF value.event = "file_done"
    THEN Some(<<value.file, FileOutcome("success", GetIn(value, "output", "txt"),
                                        GetIn(value, "output", "json"), None)>>)
    ELSE IF value.event = "file_skipped"
    THEN Some(<<value.file, FileOutcome("skipped", GetIn(value, "output", "txt"),
                                        GetIn(value, "output", "json"),
                                        Get(value, "reason"))>>)
    ELSE IF value.event = "file_failed"
    THEN Some(<<value.file, FileOutcome("failed", None, None, Get(value, "error"))>>)
    ELSE None

\* A stdout line is text that is the serialisation of a JSON value, other
\* text (which no JSON parser accepts unless it is blank), or bytes that are
\* not valid UTF-8.
JsonLine(value) == [kind |-> "json", value |-> value]
TextLine(text) == [kind |-> "text", text |-> text]
BytesLine(text) == [kind |-> "bytes", text |-> text]

\* lines 123-129
ParseWorkerLine(line) ==
    IF line.kind = "text" /\ Trim(line.text) = <<>>
    THEN [ok |-> TRUE, value |-> None]
    ELSE IF line.kind = "json"
    THEN [ok |-> TRUE, value |-> Some(line.value)]
    ELSE [ok |-> FALSE, value |-> None]

\* lines 489-495: the event a line that does not parse is forwarded as
RawLineEvent(line) == [event |-> "worker_stdout", line |-> line.text]

\* an insert that keeps the value a key already has
InsertIfAbsent(map, key, value) ==
    [k \in DOMAIN map \cup {key} |-> IF k \in DOMAIN map THEN map[k] ELSE value]

\* HashMap::insert
Insert(map, key, value) ==
    [k \in DOMAIN map \cup {key} |-> IF k = key THEN value ELSE map[k]]

\* ----------------------------------------------------- shared helpers
\* lines 321-325: wait().ok().and_then(code).unwrap_or(-1)
WaitExitCode(s) == UnwrapOr(procStatus[s], -1)

\* lines 328-338
\* a clear that does not look at the session id the slot holds
ClearActiveSession(session_id) == ACTIVE_PROCESS' = None

ClearActiveSessionIfMatches(session_id) ==
    ACTIVE_PROCESS' =
        IF IsSome(ACTIVE_PROCESS) /\ Unwrap(ACTIVE_PROCESS).session_id = session_id
        THEN None
        ELSE ACTIVE_PROCESS

\* only an exit code of 0 counts as completed
ExitStatusZeroOnly(exit_code) ==
    IF exit_code = 0 THEN "completed" ELSE "failed"

\* lines 504-508
ExitStatus(exit_code) ==
    IF exit_code = 0 \/ exit_code = 2 THEN "completed" ELSE "failed"

\* line 536
FinishedSuccess(exit_code) == exit_code = 0 \/ exit_code = 2

NotificationPreferences ==
    [notifications_enabled : BOOLEAN, notify_on_complete : BOOLEAN,
     notify_on_error : BOOLEAN]

\* a notification shown without asking the OS for the permission
MaybeShowSessionNotificationUnasked(prefs, permission, exit_code) ==
    IF ~prefs.notifications_enabled THEN "none"
    ELSE IF exit_code = 0 \/ exit_code = 2
         THEN (IF prefs.notify_on_complete THEN "completion" ELSE "none")
         ELSE (IF prefs.notify_on_error THEN "failure" ELSE "none")

\* lines 274-300: which notification is shown, "none" when none is
MaybeShowSessionNotification(prefs, permission, exit_code) ==
    IF ~prefs.notifications_enabled THEN "none"
    ELSE IF ~permission THEN "none"
    ELSE IF exit_code = 0 \/ exit_code = 2
         THEN (IF prefs.notify_on_complete THEN "completion" ELSE "none")
         ELSE (IF prefs.notify_on_error THEN "failure" ELSE "none")

\* ------------------------------------------------------ the stream task
\* lines 475-498: the body of the stdout loop for one line
StreamProcessLine(s, line) ==
    LET parsed == ParseWorkerLine(line)
    IN IF parsed.ok /\ IsSome(parsed.value)
       THEN LET value == Unwrap(parsed.value)
            IN /\ latest_summary' = [latest_summary EXCEPT ![s] =
                      IF IsSome(ParseSummaryEvent(value))
                      THEN ParseSummaryEvent(value) ELSE @]
               /\ fatal_error' = [fatal_error EXCEPT ![s] =
                      IF IsSome(ParseFatalError(value))
                      THEN ParseFatalError(value) ELSE @]
               /\ file_outcomes' = [file_outcomes EXCEPT ![s] =
                      IF IsSome(ParseFileOutcome(value))
                      THEN Insert(@, Unwrap(ParseFileOutcome(value))[1],
                                  Unwrap(ParseFileOutcome(value))[2])
                      ELSE @]
               /\ Emit(s, value)
       ELSE IF parsed.ok
       THEN UNCHANGED <<latest_summary, fatal_error, file_outcomes, emitted>>
       ELSE /\ Emit(s, RawLineEvent(line))
            /\ UNCHANGED <<latest_summary, fatal_error, file_outcomes>>

\* lines 474-499: the worker writes a protocol line and the stream task reads
\* it, classifies it and forwards it
StreamReadLine(s) ==
    /\ streamPc[s] = "reading"
    /\ proc[s] = "running" /\ stdoutOpen[s]
    /\ stdoutPipe[s] = <<>>
    /\ linesRead[s] < MaxLines
    /\ \E value \in WorkerLines :
         /\ StreamProcessLine(s, JsonLine(value))
         /\ stdoutWritten' = [stdoutWritten EXCEPT ![s] = Append(@, JsonLine(value))]
    /\ linesRead' = [linesRead EXCEPT ![s] = @ + 1]
    /\ UNCHANGED <<ACTIVE_PROCESS, launchVars, procVars, signals, childLock,
                   streamPc, streamExit, notified, storeVars, stdoutPipe,
                   stderrTask, sideVars, stopVars>>

\* lines 474-499: the stream task takes the next line out of the pipe.
\* reader.lines() yields Err for a line that is not valid UTF-8 and
\* map_while(Result::ok) ends the loop there.
StreamNextLine(s) ==
    /\ streamPc[s] = "reading"
    /\ stdoutPipe[s] /= <<>>
    /\ stdoutPipe' = [stdoutPipe EXCEPT ![s] = Tail(@)]
    /\ linesRead' = [linesRead EXCEPT ![s] = @ + 1]
    /\ IF Head(stdoutPipe[s]).kind = "bytes"
       THEN /\ streamPc' = [streamPc EXCEPT ![s] = "joining"]
            /\ UNCHANGED <<latest_summary, fatal_error, file_outcomes, emitted>>
       ELSE /\ StreamProcessLine(s, Head(stdoutPipe[s]))
            /\ UNCHANGED streamPc
    /\ UNCHANGED <<ACTIVE_PROCESS, launchVars, procVars, signals, childLock,
                   streamExit, notified, storeVars, stdoutWritten, stderrTask,
                   sideVars, stopVars>>

\* line 474: reader.lines() ends when the write end of stdout is closed
StreamStdoutEof(s) ==
    /\ streamPc[s] = "reading"
    /\ ~stdoutOpen[s]
    /\ stdoutPipe[s] = <<>>
    /\ streamPc' = [streamPc EXCEPT ![s] = "joining"]
    /\ UNCHANGED <<ACTIVE_PROCESS, launchVars, procVars, signals, childLock,
                   linesRead, latest_summary, fatal_error, file_outcomes, streamExit,
                   notified, storeVars, pipeVars, sideVars, emitted, stopVars>>

\* line 501: the stderr thread is joined; it ends when stderr is closed and
\* read to its end, or when its loop has ended before that
StreamJoinStderr(s) ==
    /\ streamPc[s] = "joining"
    /\ \/ stderrTask[s].ended
       \/ ~stderrOpen[s] /\ stderrTask[s].pipe = <<>>
    /\ streamPc' = [streamPc EXCEPT ![s] = "wait_lock"]
    /\ UNCHANGED <<ACTIVE_PROCESS, launchVars, procVars, signals, childLock,
                   linesRead, latest_summary, fatal_error, file_outcomes, streamExit,
                   notified, storeVars, pipeVars, sideVars, emitted, stopVars>>

\* lines 302-313: the stderr thread takes the next line out of the pipe and
\* forwards it as a worker_stderr event.  reader.lines() yields Err for a
\* line that is not valid UTF-8 and map_while(Result::ok) ends the loop there.
StderrNextLine(s) ==
    /\ streamPc[s] /= "none"
    /\ ~stderrTask[s].ended
    /\ stderrTask[s].pipe /= <<>>
    /\ LET line == Head(stderrTask[s].pipe)
       IN /\ stderrTask' = [stderrTask EXCEPT
                                ![s].pipe = Tail(@),
                                ![s].taken = Append(@, line),
                                ![s].ended = (line.kind = "bytes")]
          /\ IF line.kind = "bytes"
             THEN UNCHANGED emitted
             ELSE Emit(s, [event |-> "worker_stderr", line |-> line.text])
    /\ UNCHANGED <<ACTIVE_PROCESS, launchVars, procVars, signals, childLock,
                   streamVars, storeVars, stdoutPipe, stdoutWritten, sideVars,
                   stopVars>>

\* lines 503, 316-319: wait_for_exit_code takes the child lock
StreamWaitLock(s) ==
    /\ streamPc[s] = "wait_lock"
    /\ childLock[s] = "free"
    /\ childLock' = [childLock EXCEPT ![s] = "stream"]
    /\ streamPc' = [streamPc EXCEPT ![s] = "waiting"]
    /\ UNCHANGED <<ACTIVE_PROCESS, launchVars, procVars, signals, linesRead,
                   latest_summary, fatal_error, file_outcomes, streamExit, notified,
                   storeVars, pipeVars, sideVars, emitted, stopVars>>

\* lines 503, 321-325: wait() returns once the worker has exited
StreamWaitReturn(s) ==
    /\ streamPc[s] = "waiting"
    /\ proc[s] = "exited"
    /\ streamExit' = [streamExit EXCEPT ![s] = WaitExitCode(s)]
    /\ childLock' = [childLock EXCEPT ![s] = "free"]
    /\ streamPc' = [streamPc EXCEPT ![s] = "archive"]
    /\ UNCHANGED <<ACTIVE_PROCESS, launchVars, procVars, signals, linesRead,
                   latest_summary, fatal_error, file_outcomes, notified, storeVars, pipeVars, sideVars, emitted,
                   stopVars>>

\* a stream task that ends at once when the archive fails
StreamArchiveOrQuit(s) ==
    /\ streamPc[s] = "archive"
    /\ \E ok \in BOOLEAN :
         /\ ArchiveSession(ManifestFiles, s, latest_summary[s], streamExit[s],
                           ExitStatus(streamExit[s]), file_outcomes[s], ok)
         /\ streamPc' = [streamPc EXCEPT ![s] =
                IF ok THEN "emit_finished" ELSE "done"]
    /\ UNCHANGED <<ACTIVE_PROCESS, launchVars, procVars, signals, childLock,
                   linesRead, latest_summary, fatal_error, file_outcomes, streamExit,
                   notified, emitted, pipeVars, sideVars, stopVars>>

\* lines 504-528: an archive error is logged and the task goes on
StreamArchive(s) ==
    /\ streamPc[s] = "archive"
    /\ \E ok \in BOOLEAN :
         ArchiveSession(ManifestFiles, s, latest_summary[s], streamExit[s],
                        ExitStatus(streamExit[s]), file_outcomes[s], ok)
    /\ streamPc' = [streamPc EXCEPT ![s] = "emit_finished"]
    /\ UNCHANGED <<ACTIVE_PROCESS, launchVars, procVars, signals, childLock,
                   linesRead, latest_summary, fatal_error, file_outcomes, streamExit,
                   notified, emitted, pipeVars, sideVars, stopVars>>

\* lines 530-538
StreamEmitFinished(s) ==
    /\ streamPc[s] = "emit_finished"
    /\ Emit(s, [event |-> "worker_finished", session_id |-> s,
                exit_code |-> streamExit[s],
                success |-> FinishedSuccess(streamExit[s])])
    /\ streamPc' = [streamPc EXCEPT ![s] = "emit_summary"]
    /\ UNCHANGED <<ACTIVE_PROCESS, launchVars, procVars, signals, childLock,
                   linesRead, latest_summary, fatal_error, file_outcomes, streamExit,
                   notified, storeVars, pipeVars, sideVars, stopVars>>

\* lines 539-547
StreamEmitSummary(s) ==
    /\ streamPc[s] = "emit_summary"
    /\ Emit(s, [event |-> "session_summary", session_id |-> s,
                exit_code |-> streamExit[s],
                status |-> ExitStatus(streamExit[s])])
    /\ streamPc' = [streamPc EXCEPT ![s] = "notify"]
    /\ UNCHANGED <<ACTIVE_PROCESS, launchVars, procVars, signals, childLock,
                   linesRead, latest_summary, fatal_error, file_outcomes, streamExit,
                   notified, storeVars, pipeVars, sideVars, stopVars>>

\* lines 549-555: the preferences are the ones launch() was given and the
\* permission is what the OS answers; both are read only here
StreamNotify(s) ==
    /\ streamPc[s] = "notify"
    /\ \E prefs \in NotificationPreferences, permission \in BOOLEAN :
         notified' = [notified EXCEPT ![s] =
             MaybeShowSessionNotification(prefs, permission, streamExit[s])]
    /\ streamPc' = [streamPc EXCEPT ![s] = "clear"]
    /\ UNCHANGED <<ACTIVE_PROCESS, launchVars, procVars, signals, childLock,
                   linesRead, latest_summary, fatal_error, file_outcomes, streamExit,
                   storeVars, pipeVars, sideVars, emitted, stopVars>>

\* a stream task that ends without clearing the slot
StreamEndWithoutClear(s) ==
    /\ streamPc[s] = "clear"
    /\ streamPc' = [streamPc EXCEPT ![s] = "done"]
    /\ UNCHANGED <<ACTIVE_PROCESS, launchVars, procVars, signals, childLock,
                   linesRead, latest_summary, fatal_error, file_outcomes, streamExit,
                   notified, storeVars, pipeVars, sideVars, emitted, stopVars>>

\* line 557
StreamClear(s) ==
    /\ streamPc[s] = "clear"
    /\ ClearActiveSessionIfMatches(s)
    /\ streamPc' = [streamPc EXCEPT ![s] = "done"]
    /\ UNCHANGED <<launchVars, procVars, signals, childLock, linesRead,
                   latest_summary, fatal_error, file_outcomes, streamExit, notified,
                   storeVars, pipeVars, sideVars, emitted, stopVars>>

\* ---------------------------------------------------------------- stop()
\* stop() returns: its locals are dropped
StopReturn(result) ==
    /\ stopPc' = "idle"
    /\ stopResult' = Some(result)
    /\ stopOutcome' = [stopOutcome EXCEPT ![stopReq] = IF result.ok THEN "ok" ELSE "err"]
    /\ stopPolls' = 0
    /\ graceful' = FALSE
    /\ stopExit' = 0
    /\ UNCHANGED <<stopReq, stopCalls>>

\* a stop() that treats a mismatched id as nothing to do
StopEarlyReturnSilent(active, session_id) ==
    IF ~IsSome(active) THEN Some(Ok)
    ELSE IF Unwrap(active).session_id /= session_id THEN Some(Ok)
    ELSE None

\* a stop() that treats an empty slot as an error
StopEarlyReturnStrict(active, session_id) ==
    IF ~IsSome(active) THEN Some(Err(<<"No active session">>))
    ELSE IF Unwrap(active).session_id /= session_id
    THEN Some(Err(<<"Session mismatch: active=", Unwrap(active).session_id,
                    ", requested=", session_id>>))
    ELSE None

\* lines 569-578: what stop() returns before doing anything, None when the
\* requested id is the active one
StopEarlyReturn(active, session_id) ==
    IF ~IsSome(active) THEN Some(Ok)
    ELSE IF Unwrap(active).session_id /= session_id
    THEN Some(Err(<<"Session mismatch: active=", Unwrap(active).session_id,
                    ", requested=", session_id>>))
    ELSE None

\* lines 564-585: the slot is inspected under the ACTIVE_PROCESS lock
StopBegin(session_id) ==
    /\ stopPc = "idle"
    /\ stopCalls < MaxStops
    /\ stopCalls' = stopCalls + 1
    /\ stopReq' = session_id
    /\ IF IsSome(StopEarlyReturn(ACTIVE_PROCESS, session_id))
       THEN /\ stopResult' = StopEarlyReturn(ACTIVE_PROCESS, session_id)
            /\ UNCHANGED <<stopPc, stopOutcome>>
       ELSE /\ stopPc' = "sigterm"
            /\ stopResult' = None
            /\ stopOutcome' = [stopOutcome EXCEPT ![session_id] = "attempted"]
    /\ UNCHANGED <<ACTIVE_PROCESS, launchVars, procVars, signals, childLock,
                   streamVars, storeVars, pipeVars, sideVars, emitted, stopPolls, graceful, stopExit>>

\* lines 343-360: the pid is read under the child lock and `kill -TERM` is run
StopSigterm ==
    /\ stopPc = "sigterm"
    /\ childLock[stopReq] = "free"
    /\ \E signaled \in BOOLEAN :
         IF signaled
         THEN /\ signals' = [signals EXCEPT ![stopReq] = @ \cup {"TERM"}]
              /\ stopPc' = "poll"
         ELSE /\ stopPc' = "sigterm_kill"
              /\ UNCHANGED signals
    /\ UNCHANGED <<ACTIVE_PROCESS, launchVars, procVars, childLock, streamVars,
                   storeVars, pipeVars, sideVars, emitted, stopReq, stopPolls, graceful, stopExit,
                   stopResult, stopCalls, stopOutcome>>

\* lines 362-369: `kill -TERM` failed, Child::kill is tried under the child lock
StopSigtermKill ==
    /\ stopPc = "sigterm_kill"
    /\ childLock[stopReq] = "free"
    /\ \E killed \in BOOLEAN :
         IF killed
         THEN /\ Killed(stopReq)
              /\ stopPc' = "poll"
              /\ UNCHANGED <<stopReq, stopPolls, graceful, stopExit, stopResult,
                             stopCalls, stopOutcome>>
         ELSE /\ StopReturn(Err(<<"Failed to terminate worker">>))
              /\ UNCHANGED <<procVars, signals>>
    /\ UNCHANGED <<ACTIVE_PROCESS, launchVars, childLock, streamVars, storeVars, pipeVars, sideVars,
                   emitted>>

\* lines 592-619: one round of the poll loop
StopPoll ==
    /\ stopPc = "poll"
    /\ childLock[stopReq] = "free"
    /\ \E polled \in BOOLEAN :
         IF ~polled
         THEN StopReturn(Err(<<"Failed while waiting for worker shutdown">>))
         ELSE IF proc[stopReq] = "exited"
         THEN /\ graceful' = TRUE
              /\ stopPc' = "clear"
              /\ UNCHANGED <<stopReq, stopPolls, stopExit, stopResult, stopCalls,
                             stopOutcome>>
         ELSE IF stopPolls >= GracePolls
         THEN /\ stopPc' = "force_kill"
              /\ UNCHANGED <<stopReq, stopPolls, graceful, stopExit, stopResult,
                             stopCalls, stopOutcome>>
         ELSE /\ stopPolls' = stopPolls + 1
              /\ UNCHANGED <<stopPc, stopReq, graceful, stopExit, stopResult,
                             stopCalls, stopOutcome>>
    /\ UNCHANGED <<ACTIVE_PROCESS, launchVars, procVars, signals, childLock,
                   streamVars, storeVars, pipeVars, sideVars, emitted>>

\* lines 621-623, 372-381
StopForceKill ==
    /\ stopPc = "force_kill"
    /\ childLock[stopReq] = "free"
    /\ \E killed \in BOOLEAN :
         IF killed
         THEN /\ Killed(stopReq)
              /\ stopPc' = "clear"
              /\ UNCHANGED <<stopReq, stopPolls, graceful, stopExit, stopResult,
                             stopCalls, stopOutcome>>
         ELSE /\ StopReturn(Err(<<"Failed to force kill worker">>))
              /\ UNCHANGED <<procVars, signals>>
    /\ UNCHANGED <<ACTIVE_PROCESS, launchVars, childLock, streamVars, storeVars, pipeVars, sideVars,
                   emitted>>

\* line 625
StopClear ==
    /\ stopPc = "clear"
    /\ ClearActiveSessionIfMatches(stopReq)
    /\ stopPc' = "wait_lock"
    /\ UNCHANGED <<launchVars, procVars, signals, childLock, streamVars,
                   storeVars, pipeVars, sideVars, emitted, stopReq, stopPolls, graceful, stopExit,
                   stopResult, stopCalls, stopOutcome>>

\* lines 626, 316-319
StopWaitLock ==
    /\ stopPc = "wait_lock"
    /\ childLock[stopReq] = "free"
    /\ childLock' = [childLock EXCEPT ![stopReq] = "stop"]
    /\ stopPc' = "waiting"
    /\ UNCHANGED <<ACTIVE_PROCESS, launchVars, procVars, signals, streamVars,
                   storeVars, pipeVars, sideVars, emitted, stopReq, stopPolls, graceful, stopExit,
                   stopResult, stopCalls, stopOutcome>>

\* lines 626, 321-325
StopWaitReturn ==
    /\ stopPc = "waiting"
    /\ proc[stopReq] = "exited"
    /\ stopExit' = WaitExitCode(stopReq)
    /\ childLock' = [childLock EXCEPT ![stopReq] = "free"]
    /\ stopPc' = "archive"
    /\ UNCHANGED <<ACTIVE_PROCESS, launchVars, procVars, signals, streamVars,
                   storeVars, pipeVars, sideVars, emitted, stopReq, stopPolls, graceful, stopResult,
                   stopCalls, stopOutcome>>

\* lines 627-639
StopArchive ==
    /\ stopPc = "archive"
    /\ \E ok \in BOOLEAN :
         ArchiveSession(ManifestFiles, stopReq, None, stopExit, "cancelled",
                        EmptyOutcomes, ok)
    /\ stopPc' = "emit_stopped"
    /\ UNCHANGED <<ACTIVE_PROCESS, launchVars, procVars, signals, childLock,
                   streamVars, pipeVars, sideVars, emitted, stopReq, stopPolls, graceful, stopExit,
                   stopResult, stopCalls, stopOutcome>>

\* lines 641-651
StopEmitStopped ==
    /\ stopPc = "emit_stopped"
    /\ Emit(stopReq, [event |-> "worker_stopped", session_id |-> stopReq,
                      reason |-> IF graceful THEN "graceful" ELSE "forced",
                      reset_item_ids |-> QueuedItemIds])
    /\ stopPc' = "emit_summary"
    /\ UNCHANGED <<ACTIVE_PROCESS, launchVars, procVars, signals, childLock,
                   streamVars, storeVars, pipeVars, sideVars, stopReq, stopPolls, graceful, stopExit,
                   stopResult, stopCalls, stopOutcome>>

\* lines 653-666
StopEmitSummary ==
    /\ stopPc = "emit_summary"
    /\ Emit(stopReq, [event |-> "session_summary", session_id |-> stopReq,
                      exit_code |-> stopExit, status |-> "cancelled",
                      reset_item_ids |-> QueuedItemIds])
    /\ StopReturn(Ok)
    /\ UNCHANGED <<ACTIVE_PROCESS, launchVars, procVars, signals, childLock,
                   streamVars, storeVars, pipeVars, sideVars>>

\* ------------------------------------------- archive() called directly
\* commits of archive_session_with_path per session id over a run
MaxArchives == 2

\* manifests handed to archive(): two files of which one is declared "done",
\* one file, and a manifest listing the same id and path twice
HistoryManifests ==
    {<<FileEntry("f1", "f1", "queued"), FileEntry("f2", "f2", "done")>>,
     <<FileEntry("f2", "f2", "queued")>>,
     <<FileEntry("f1", "f1", "queued"), FileEntry("f1", "f1", "queued")>>}

\* summaries handed to archive(): none, one in range, one whose total does not
\* fit an i32
HistorySummaries ==
    {None} \cup {Some(sm) : sm \in Summaries}
        \cup {Some([total |-> U64Above(5), processed |-> U64(1),
                    skipped |-> U64(0), failed |-> U64(1)])}

\* the outcome map after the stream task has read these lines in order
RECURSIVE OutcomeMap(_)
OutcomeMap(lines) ==
    IF lines = <<>> THEN EmptyOutcomes
    ELSE LET parsed == ParseFileOutcome(lines[Len(lines)])
             before == OutcomeMap(SubSeq(lines, 1, Len(lines) - 1))
         IN IF IsSome(parsed)
            THEN Insert(before, Unwrap(parsed)[1], Unwrap(parsed)[2])
            ELSE before

\* outcome maps handed to archive()
HistoryOutcomes ==
    {EmptyOutcomes,
     OutcomeMap(<<[event |-> "file_failed", file |-> "f1", error |-> "decode"]>>),
     OutcomeMap(<<[event |-> "file_done", file |-> "f1",
                   output |-> [txt |-> <<"f1", "txt">>, json |-> <<"f1", "json">>]]>>),
     OutcomeMap(<<[event |-> "file_done", file |-> "f1",
                   output |-> [txt |-> <<"f1", "txt">>, json |-> <<"f1", "json">>]],
                  [event |-> "file_skipped", file |-> "f2", reason |-> "exists"]>>)}

HistoryStatuses == {"completed", "failed", "cancelled"}

HistoryExitCodes == {0, 1}

\* the arguments of an archive() call for session s: any for the first
\* session, fixed ones for every other session
ArchiveInputs(s) ==
    IF s = FirstSession
    THEN [manifest : HistoryManifests, summary : HistorySummaries,
          exit_code : HistoryExitCodes, status : HistoryStatuses,
          outcomes : HistoryOutcomes]
    ELSE {[manifest |-> ManifestFiles, summary |-> None, exit_code |-> 0,
           status |-> "completed", outcomes |-> EmptyOutcomes]}

launcherVars == <<ACTIVE_PROCESS, launchVars, procVars, signals, childLock,
                  streamVars, emitted, stopVars, pipeVars>>

\* history.rs lines 466-488: one archive_session_with_path call with
\* arguments out of inputs
ArchiveCall(s, inputs) ==
    /\ Len(archiveLog[s]) < MaxArchives
    /\ \E in \in inputs, ok \in BOOLEAN :
         ArchiveSession(in.manifest, s, in.summary, in.exit_code, in.status,
                        in.outcomes, ok)
    /\ UNCHANGED <<launcherVars, sideVars>>

HistoryArchive(s) == ArchiveCall(s, ArchiveInputs(s))

NextHistory == \E s \in SessionIds : HistoryArchive(s)

\* archive() calls for any session, in any order, on a new database
SpecHistory == Init /\ [][NextHistory]_vars

\* ------------------------------------------------------ delete_session
\* delete_session calls made over a run
MaxDeletes == 2

\* a delete that removes the session row and leaves its file rows
DeleteSessionRowOnly(db, session_id) ==
    [db EXCEPT !.sessions = {r \in @ : r.id /= session_id}]

\* history.rs lines 452-461: DELETE FROM session_files WHERE session_id = ?,
\* then DELETE FROM sessions WHERE id = ? (with its ON DELETE CASCADE)
DeleteSession(db, session_id) ==
    LET cleared == DeleteSessionFiles(db, session_id)
    IN [sessions |-> {r \in cleared.sessions : r.id /= session_id},
        session_files |-> {f \in cleared.session_files : f.session_id /= session_id}]

\* history.rs lines 447-464: one delete_session_with_path call; ok = FALSE is
\* a failure of opening the database, of a statement or of the commit, which
\* leaves the database as it was
HistoryDelete(s) ==
    /\ deletes.calls < MaxDeletes
    /\ \E ok \in BOOLEAN :
         /\ deletes' = [calls |-> deletes.calls + 1,
                        last |-> Some([session_id |-> s, ok |-> ok])]
         /\ history' = IF ok THEN DeleteSession(history, s) ELSE history
         /\ lastArchive' = IF ok THEN [lastArchive EXCEPT ![s] = None]
                                 ELSE lastArchive
    /\ UNCHANGED <<archiveLog, txn, listing, launcherVars, sideVars>>

\* the arguments of the archive() calls made next to delete(): any manifest,
\* with or without an outcome, as completed or cancelled
StoreInputs ==
    [manifest : HistoryManifests, summary : {None}, exit_code : {0},
     status : {"completed", "cancelled"},
     outcomes : {EmptyOutcomes,
                 OutcomeMap(<<[event |-> "file_failed", file |-> "f1",
                               error |-> "decode"]>>)}]

StoreArchive(s) == ArchiveCall(s, StoreInputs)

NextStore ==
    \/ \E s \in SessionIds : StoreArchive(s)
    \/ \E s \in SessionIds : HistoryDelete(s)

\* archive() and delete() calls for any session, in any order, on a new
\* database
SpecStore == Init /\ [][NextStore]_vars

\* ------------------------------------- the notification decision alone
\* exit codes handed to maybe_show_session_notification: no code (-1), success,
\* partial success, and failures
NotifyExitCodes == {-1, 0, 1, 2, 3, 130, 255}

\* lines 274-300: one call with any preferences, any answer of
\* check_permission and any exit code
NotifyCall ==
    /\ notifyArgs = None
    /\ \E prefs \in NotificationPreferences, permission \in BOOLEAN,
          exit_code \in NotifyExitCodes :
         /\ notifyArgs' = Some([prefs |-> prefs, permission |-> permission,
                                exit_code |-> exit_code])
         /\ notifySent' = MaybeShowSessionNotification(prefs, permission, exit_code)
    /\ UNCHANGED <<launcherVars, storeVars, manifestVars, frontVars>>

NextNotify == NotifyCall

SpecNotify == Init /\ [][NextNotify]_vars

\* ------------------------------------------------ generate_manifest
\* queue items handed to one generate_manifest call
MaxItems == 2
\* write calls write_all needs for the payload
PayloadChunks == 2

\* manifest.rs lines 7-9
DefaultStatus == <<"q", "u", "e", "u", "e", "d">>

\* only the empty status is replaced
NormalizeStatusEmptyOnly(status) == IF status = <<>> THEN DefaultStatus ELSE status

\* manifest.rs lines 186-190
NormalizeStatus(status) == IF Trim(status) = <<>> THEN DefaultStatus ELSE status

\* A PathBuf is its text and whether its bytes are valid UTF-8.
PathBuf(text) == [utf8 |-> TRUE, text |-> text]
NonUtf8Path(text) == [utf8 |-> FALSE, text |-> text]

\* statuses of queue items: empty, blank, padded, and the default itself
ItemStatuses == {<<>>, <<" ">>, <<"\t", " ">>, <<" ", "d">>, DefaultStatus}

QueueItems ==
    [id : {"i1", "i2"},
     path : {PathBuf("a.wav"), NonUtf8Path("b.wav")},
     status : ItemStatuses]

\* the item lists of at most MaxItems items
ItemLists == UNION {[1..n -> QueueItems] : n \in 0..MaxItems}

\* manifest.rs lines 70-85 and the settings of the test fixture
SettingsValues ==
    {[output_format |-> "both", recursive |-> TRUE, overwrite |-> FALSE,
      max_retries |-> 1, extensions |-> <<"mp3", "wav", "m4a">>,
      ffmpeg_fallback |-> TRUE, dry_run |-> FALSE, notifications_enabled |-> TRUE,
      notify_on_complete |-> TRUE, notify_on_error |-> TRUE],
     [output_format |-> "txt", recursive |-> FALSE, overwrite |-> TRUE,
      max_retries |-> 2, extensions |-> <<"wav">>,
      ffmpeg_fallback |-> FALSE, dry_run |-> TRUE, notifications_enabled |-> FALSE,
      notify_on_complete |-> FALSE, notify_on_error |-> FALSE]}

GenerateInputs ==
    [provider : {"coreml-local"}, model : {"v3"},
     output_dir : {PathBuf("out"), NonUtf8Path("out")},
     items : ItemLists, settings : SettingsValues]

\* Serialize of TranscriptionSettings under rename_all = "camelCase"
SerializeSettings(settings) ==
    [outputFormat |-> settings.output_format, recursive |-> settings.recursive,
     overwrite |-> settings.overwrite, maxRetries |-> settings.max_retries,
     extensions |-> settings.extensions,
     ffmpegFallback |-> settings.ffmpeg_fallback, dryRun |-> settings.dry_run,
     notificationsEnabled |-> settings.notifications_enabled,
     notifyOnComplete |-> settings.notify_on_complete,
     notifyOnError |-> settings.notify_on_error]

\* Deserialize of TranscriptionSettings: a missing key takes its serde default
DeserializeSettings(json) ==
    [output_format |-> UnwrapOr(Get(json, "outputFormat"), "both"),
     recursive |-> UnwrapOr(Get(json, "recursive"), TRUE),
     overwrite |-> UnwrapOr(Get(json, "overwrite"), FALSE),
     max_retries |-> UnwrapOr(Get(json, "maxRetries"), 0),
     extensions |-> UnwrapOr(Get(json, "extensions"), <<"mp3", "wav", "m4a">>),
     ffmpeg_fallback |-> UnwrapOr(Get(json, "ffmpegFallback"), TRUE),
     dry_run |-> UnwrapOr(Get(json, "dryRun"), FALSE),
     notifications_enabled |-> UnwrapOr(Get(json, "notificationsEnabled"), TRUE),
     notify_on_complete |-> UnwrapOr(Get(json, "notifyOnComplete"), TRUE),
     notify_on_error |-> UnwrapOr(Get(json, "notifyOnError"), TRUE)]

\* line 126: serde_json::to_string_pretty(manifest); a path that is not valid
\* UTF-8 makes it fail
SerializeManifest(manifest) ==
    IF \/ ~manifest.output_dir.utf8
       \/ \E i \in 1..Len(manifest.files) : ~manifest.files[i].path.utf8
    THEN None
    ELSE Some([sessionId |-> manifest.session_id,
               createdAt |-> manifest.created_at,
               provider |-> manifest.provider,
               model |-> manifest.model,
               outputDir |-> manifest.output_dir.text,
               settings |-> SerializeSettings(manifest.settings),
               files |-> [i \in 1..Len(manifest.files) |->
                            [id |-> manifest.files[i].id,
                             path |-> manifest.files[i].path.text,
                             status |-> manifest.files[i].status]]])

\* serde_json::from_str::<SessionManifest> of a payload
DeserializeManifest(json) ==
    [session_id |-> json.sessionId,
     created_at |-> json.createdAt,
     provider |-> json.provider,
     model |-> json.model,
     output_dir |-> PathBuf(json.outputDir),
     settings |-> DeserializeSettings(json.settings),
     files |-> [i \in 1..Len(json.files) |->
                  [id |-> json.files[i].id,
                   path |-> PathBuf(json.files[i].path),
                   status |-> json.files[i].status]]]

\* a file holding the first len chunks of a payload
FileContent(data, len) == [data |-> data, len |-> len]

\* the file at path holds this payload completely
HoldsComplete(path, data) == fs[path] = Some(FileContent(data, PayloadChunks))

GenSessionId == Unwrap(genManifest).session_id

GenPayload == Unwrap(SerializeManifest(Unwrap(genManifest)))

\* an error return of generate_manifest: the ? operator
GenFail(msg) ==
    /\ genPc' = "failed"
    /\ genResult' = Some(Err(<<msg>>))

\* lines 179-205: the session id is drawn and the manifest built;
\* get_sessions_dir can fail
GenerateManifest ==
    /\ genPc = "idle"
    /\ \E args \in GenerateInputs, session_id \in SessionIds, home \in BOOLEAN :
         /\ genArgs' = Some(args)
         /\ genManifest' = Some(
              [session_id |-> session_id,
               created_at |-> "now",
               provider |-> args.provider,
               model |-> args.model,
               output_dir |-> args.output_dir,
               settings |-> args.settings,
               files |-> [i \in 1..Len(args.items) |->
                            [id |-> args.items[i].id,
                             path |-> args.items[i].path,
                             status |-> NormalizeStatus(args.items[i].status)]]])
         /\ IF home
            THEN genPc' = "create_dir" /\ UNCHANGED genResult
            ELSE GenFail("Failed to resolve home directory")
    /\ UNCHANGED <<launcherVars, storeVars, notifyVars, frontVars, fs, tmpSynced>>

\* lines 115-121
GenCreateDir ==
    /\ genPc = "create_dir"
    /\ \E ok \in BOOLEAN :
         IF ok
         THEN genPc' = "serialize" /\ UNCHANGED genResult
         ELSE GenFail("Failed to create sessions directory")
    /\ UNCHANGED <<launcherVars, storeVars, notifyVars, frontVars, genArgs, genManifest, fs,
                   tmpSynced>>

\* lines 126-127
GenSerialize ==
    /\ genPc = "serialize"
    /\ IF IsSome(SerializeManifest(Unwrap(genManifest)))
       THEN genPc' = "create_tmp" /\ UNCHANGED genResult
       ELSE GenFail("Failed to serialize session manifest")
    /\ UNCHANGED <<launcherVars, storeVars, notifyVars, frontVars, genArgs, genManifest, fs,
                   tmpSynced>>

\* lines 130-136: File::create makes the file or truncates it
GenCreateTmp ==
    /\ genPc = "create_tmp"
    /\ \E ok \in BOOLEAN :
         IF ok
         THEN /\ fs' = [fs EXCEPT ![TmpPath(GenSessionId)] =
                            Some(FileContent(GenPayload, 0))]
              /\ genPc' = "write"
              /\ UNCHANGED genResult
         ELSE GenFail("Failed to create temporary manifest file") /\ UNCHANGED fs
    /\ UNCHANGED <<launcherVars, storeVars, notifyVars, frontVars, genArgs, genManifest,
                   tmpSynced>>

\* lines 137-143: write_all, one write call
GenWrite ==
    /\ genPc = "write"
    /\ \E ok \in BOOLEAN :
         IF ok
         THEN /\ fs' = [fs EXCEPT ![TmpPath(GenSessionId)] =
                            Some(FileContent(Unwrap(@).data, Unwrap(@).len + 1))]
              /\ genPc' = IF Unwrap(fs[TmpPath(GenSessionId)]).len + 1 = PayloadChunks
                          THEN "flush" ELSE "write"
              /\ UNCHANGED genResult
         ELSE GenFail("Failed to write temporary manifest file") /\ UNCHANGED fs
    /\ UNCHANGED <<launcherVars, storeVars, notifyVars, frontVars, genArgs, genManifest,
                   tmpSynced>>

\* lines 144-150
GenFlush ==
    /\ genPc = "flush"
    /\ \E ok \in BOOLEAN :
         IF ok
         THEN genPc' = "sync" /\ UNCHANGED genResult
         ELSE GenFail("Failed to flush temporary manifest file")
    /\ UNCHANGED <<launcherVars, storeVars, notifyVars, frontVars, genArgs, genManifest, fs,
                   tmpSynced>>

\* lines 151-157
GenSync ==
    /\ genPc = "sync"
    /\ \E ok \in BOOLEAN :
         IF ok
         THEN genPc' = "rename" /\ tmpSynced' = TRUE /\ UNCHANGED genResult
         ELSE GenFail("Failed to sync temporary manifest file") /\ UNCHANGED tmpSynced
    /\ UNCHANGED <<launcherVars, storeVars, notifyVars, frontVars, genArgs, genManifest, fs>>

\* lines 160-169 and 207: the rename, and the return of (session_id, path)
GenRename ==
    /\ genPc = "rename"
    /\ \E ok \in BOOLEAN :
         IF ok
         THEN /\ fs' = [fs EXCEPT ![ManifestPath(GenSessionId)] =
                                        fs[TmpPath(GenSessionId)],
                                  ![TmpPath(GenSessionId)] =
                                        IF TmpPath(GenSessionId) = ManifestPath(GenSessionId)
                                        THEN fs[TmpPath(GenSessionId)] ELSE None]
              /\ genPc' = "done"
              /\ genResult' = Some([ok |-> TRUE, session_id |-> GenSessionId,
                                    path |-> ManifestPath(GenSessionId)])
         ELSE GenFail("Failed to move manifest") /\ UNCHANGED fs
    /\ UNCHANGED <<launcherVars, storeVars, notifyVars, frontVars, genArgs, genManifest,
                   tmpSynced>>

\* what a crash can leave of the temporary file: a file that was synced stays
\* as it is, one that was not keeps any part of what was written or is gone
TmpAfterCrash(file) ==
    IF file = None \/ tmpSynced THEN {file}
    ELSE {None} \cup {Some(FileContent(Unwrap(file).data, len)) :
                        len \in 0..Unwrap(file).len}

\* what a crash can leave of the directory: a rename that did not reach the
\* disk is undone as a whole
FsAfterCrash ==
    LET tmp == TmpPath(GenSessionId)
        final == ManifestPath(GenSessionId)
    IN IF tmp /= final /\ fs[final] /= None
       THEN {fs, [fs EXCEPT ![final] = None, ![tmp] = fs[final]]}
       ELSE {[fs EXCEPT ![tmp] = file] : file \in TmpAfterCrash(fs[tmp])}

\* the process dies at any point of the call or after it
GenCrash ==
    /\ genPc \notin {"idle", "crashed"}
    /\ genPc' = "crashed"
    /\ fs' \in FsAfterCrash
    /\ UNCHANGED <<launcherVars, storeVars, notifyVars, frontVars, genArgs, genManifest,
                   tmpSynced, genResult>>

NextManifest ==
    \/ GenerateManifest
    \/ GenCreateDir
    \/ GenSerialize
    \/ GenCreateTmp
    \/ GenWrite
    \/ GenFlush
    \/ GenSync
    \/ GenRename
    \/ GenCrash

\* one generate_manifest call with any arguments, any I/O failure and a crash
\* at any point
SpecManifest == Init /\ [][NextManifest]_vars

\* ------------------------------------------------- the runtime registry
\* registry.rs lines 10-13
COREML_PROVIDER_ID == "coreml-local"
LEGACY_COREML_PROVIDER_ID == "parakeet-coreml"
WHISPER_OPENAI_PROVIDER_ID == "whisper-openai"
FASTER_WHISPER_PROVIDER_ID == "faster-whisper"

\* registry.rs lines 309-315
NormalizeProviderId(id) ==
    IF id = LEGACY_COREML_PROVIDER_ID THEN COREML_PROVIDER_ID ELSE id

SwiftNative(binary_path, model_dir) ==
    [type |-> "SwiftNative", binary_path |-> binary_path, model_dir |-> model_dir]

PythonUv(package, entry_point) ==
    [type |-> "PythonUv", package |-> package, entry_point |-> entry_point]

\* what a file path can name: nothing, a directory, a regular file without
\* or with an execute bit
FileStates == {"missing", "directory", "plain", "executable"}

\* registry.rs lines 153-155: every JSON object deserializes into
\* Capabilities (each field has a default or is an Option), nothing else does
ParseCapabilitiesOutput(output) ==
    IF output = "object" THEN Some("capabilities") ELSE None

\* registry.rs lines 157-167; file is what the path names and output the
\* Option<Vec<u8>> the capability runner returns
BinarySupportsCapabilitiesWith(file, output) ==
    IF file /= "executable" THEN FALSE
    ELSE IsSome(output) /\ IsSome(ParseCapabilitiesOutput(Unwrap(output)))

\* registry.rs lines 217-236 and 443-445; env holds what the probes of this
\* machine answer: the file at the binary path, the output of its
\* --capabilities run, and whether `uv ... --capabilities` exits with success
CheckAvailable(runtime, env) ==
    IF runtime.type = "SwiftNative"
    THEN BinarySupportsCapabilitiesWith(env.binary, env.capability_output)
    ELSE IF runtime.type = "PythonUv" THEN env.uv
    ELSE TRUE

\* ------------------------------------------------- the runtime resolver
\* length of the model strings handed to resolve_provider
MaxModelLen == 3

\* characters of those strings
ModelChars == {" ", ".", "/", "\\", "v", "V", "2", "3"}

ModelStrings == UNION {[1..n -> ModelChars] : n \in 0..MaxModelLen}

\* str::contains for a string pattern
Contains(str, pattern) ==
    \E i \in 1..(Len(str) - Len(pattern) + 1) :
        SubSeq(str, i, i + Len(pattern) - 1) = pattern

\* str::to_ascii_lowercase
ToAsciiLowercase(str) ==
    [i \in 1..Len(str) |-> IF str[i] = "V" THEN "v" ELSE str[i]]

\* str::split for a one-character separator
RECURSIVE SplitOn(_, _)
SplitOn(str, sep) ==
    IF \A i \in 1..Len(str) : str[i] /= sep THEN <<str>>
    ELSE LET i == CHOOSE k \in 1..Len(str) :
                      str[k] = sep /\ \A j \in 1..(k - 1) : str[j] /= sep
         IN <<SubSeq(str, 1, i - 1)>> \o SplitOn(SubSeq(str, i + 1, Len(str)), sep)

\* A path is the sequence of its components, <<"/">> being the root
\* directory.  Path::components drops empty components and "." components
\* that are not the first of the path.
Components(str) ==
    SelectSeq(SplitOn(str, "/"), LAMBDA c : c /= <<>> /\ c /= <<".">>)

\* Path::join: an absolute argument replaces the path
PathJoin(base, str) ==
    IF str /= <<>> /\ Head(str) = "/"
    THEN <<(<<"/">>)>> \o Components(str)
    ELSE base \o Components(str)

\* resolver.rs lines 45-46
COREML_V3_FOLDER ==
    <<"p", "a", "r", "a", "k", "e", "e", "t", "-", "t", "d", "t", "-",
    "0", ".", "6", "b", "-", "v", "3", "-", "c", "o", "r", "e", "m", "l">>
COREML_V2_FOLDER ==
    <<"p", "a", "r", "a", "k", "e", "e", "t", "-", "t", "d", "t", "-",
    "0", ".", "6", "b", "-", "v", "2", "-", "c", "o", "r", "e", "m", "l">>

\* the models root and the worker binary start_transcription passes as
\* overrides, and the ones used without overrides
ModelsRoot == <<(<<"/">>), <<"m", "o", "d", "e", "l", "s">>>>
DefaultModelsRoot == <<(<<"/">>), <<"h", "o", "m", "e">>, <<"M", "o", "d", "e", "l", "s">>>>
SwiftBinary == "swift-binary"
DefaultSwiftBinaryPath == "swift-worker/.build/release/coreml-batch"

InvalidModel(model) == [kind |-> "InvalidModel", value |-> model]
NotFound(provider_id) == [kind |-> "NotFound", value |-> provider_id]
Unavailable(provider_id) == [kind |-> "Unavailable", value |-> provider_id]

ResolveOk(runtime) == [ok |-> TRUE, runtime |-> Some(runtime), error |-> None]
ResolveErr(error) == [ok |-> FALSE, runtime |-> None, error |-> Some(error)]

\* a validation that looks at the string as it is given
ValidateModelUntrimmed(model) ==
    IF \/ model = <<>>
       \/ Contains(model, <<".", ".">>)
       \/ Contains(model, <<"/">>)
       \/ Contains(model, <<"\\">>)
    THEN [ok |-> FALSE, value |-> model]
    ELSE [ok |-> TRUE, value |-> Trim(model)]

\* resolver.rs lines 67-78: value is the trimmed model when ok
ValidateModel(model) ==
    LET trimmed == Trim(model)
    IN IF \/ trimmed = <<>>
          \/ Contains(trimmed, <<".", ".">>)
          \/ Contains(trimmed, <<"/">>)
          \/ Contains(trimmed, <<"\\">>)
       THEN [ok |-> FALSE, value |-> model]
       ELSE [ok |-> TRUE, value |-> trimmed]

\* resolver.rs lines 80-89
ResolveCoremlModelDir(models_root, model) ==
    LET normalized == ToAsciiLowercase(Trim(model))
        folder == IF normalized \in {<<"v", "3">>, COREML_V3_FOLDER}
                  THEN COREML_V3_FOLDER
                  ELSE IF normalized \in {<<"v", "2">>, COREML_V2_FOLDER}
                  THEN COREML_V2_FOLDER
                  ELSE model
    IN PathJoin(models_root, folder)

\* an error that names the provider by its canonical id
UnavailableCanonical(id, normalized_id) == Unavailable(normalized_id)

\* resolver.rs line 126
UnavailableError(id, normalized_id) == Unavailable(id)

\* an error that does not name the provider
NotFoundNameless(id, normalized_id) == NotFound("")

\* resolver.rs line 121
NotFoundError(id, normalized_id) == NotFound(id)

\* resolver.rs lines 91-130
ResolveProvider(id, model, settings, env) ==
    LET normalized_id == NormalizeProviderId(id)
        validated == ValidateModel(model)
        models_root == UnwrapOr(settings.models_root_override, DefaultModelsRoot)
        swift_binary == UnwrapOr(settings.swift_binary_override,
                                 DefaultSwiftBinaryPath)
        runtime ==
            IF normalized_id = COREML_PROVIDER_ID
            THEN Some(SwiftNative(swift_binary,
                                  ResolveCoremlModelDir(models_root, validated.value)))
            ELSE IF normalized_id = WHISPER_OPENAI_PROVIDER_ID
            THEN Some(PythonUv("whisper-batch", "whisper_batch"))
            ELSE IF normalized_id = FASTER_WHISPER_PROVIDER_ID
            THEN Some(PythonUv("faster-whisper-batch", "faster_whisper_batch"))
            ELSE None
    IN IF ~validated.ok THEN ResolveErr(InvalidModel(model))
       ELSE IF runtime = None THEN ResolveErr(NotFoundError(id, normalized_id))
       ELSE IF settings.check_availability /\ ~CheckAvailable(Unwrap(runtime), env)
       THEN ResolveErr(UnavailableError(id, normalized_id))
       ELSE ResolveOk(Unwrap(runtime))

\* provider ids handed to resolve_provider: the known ones, the legacy one
\* and one that is unknown
ProviderIds ==
    {COREML_PROVIDER_ID, LEGACY_COREML_PROVIDER_ID, WHISPER_OPENAI_PROVIDER_ID,
     FASTER_WHISPER_PROVIDER_ID, "unknown-provider"}

\* the machine when every probe passes
HealthyEnv == [binary |-> "executable", capability_output |-> Some("object"),
               uv |-> TRUE]

\* machines: any state of the worker binary and of its capability run, and
\* uv working or not
ProbeEnvs ==
    {[HealthyEnv EXCEPT !.binary = b, !.capability_output = o] :
        b \in FileStates, o \in {None, Some("garbage"), Some("object")}}
    \cup {[HealthyEnv EXCEPT !.uv = FALSE]}

\* settings: the overrides start_transcription passes, with and without the
\* availability check, and the defaults without it
ResolveSettings ==
    {[swift_binary_override |-> Some(SwiftBinary),
      models_root_override |-> Some(ModelsRoot), check_availability |-> c] :
        c \in BOOLEAN}
    \cup {[swift_binary_override |-> None, models_root_override |-> None,
           check_availability |-> FALSE]}

\* one resolve_provider call
ResolveCall ==
    /\ resolveCall = None
    /\ \E id \in ProviderIds, model \in ModelStrings, settings \in ResolveSettings,
          env \in ProbeEnvs :
         /\ ~settings.check_availability => env = HealthyEnv
         /\ resolveCall' = Some([id |-> id, model |-> model, settings |-> settings,
                                 env |-> env,
                                 result |-> ResolveProvider(id, model, settings, env)])
    /\ UNCHANGED <<launcherVars, storeVars, notifyVars, manifestVars, start,
                   outputDirs, probe>>

NextResolve == ResolveCall

SpecResolve == Init /\ [][NextResolve]_vars

\* ------------------------------------------------------ the probe runners
\* probes made over a run
MaxProbes == 2

\* sleeps of the try_wait loop after which started.elapsed() has reached
\* CAPABILITY_TIMEOUT (200 in the build: 5 s in sleeps of 25 ms)
TimeoutPolls == 3

\* the two probes of the registry
ProbeOps == {"check_available", "query_capabilities"}

\* the two runtimes that are probed by running a program
ProbeRuntimes == {"SwiftNative", "PythonUv"}

\* registry.rs lines 217-260 and 443-449: the runner each probe hands the
\* program to.  check_available passes command_status_success for a PythonUv
\* runtime; every other probe goes through command_output_with_timeout.
RunnerOf(op, runtime) ==
    IF op = "check_available" /\ runtime = "PythonUv" THEN "status"
    ELSE "timeout"

\* what a probe answers: check_available a bool, query_capabilities whether
\* it returned Some(capabilities)
ProbeReturn(value) ==
    probe' = [probe EXCEPT !.pc = "idle", !.result = Some(value)]

\* nothing but the probe and its child process moves
ProbeFrame ==
    UNCHANGED <<launcherVars, storeVars, notifyVars, manifestVars, resolveCall,
                start, outputDirs>>

\* registry.rs lines 91-97, 106-112, 157-160, 217-260: a probe is called; the
\* binary is looked at first by check_available, then the program is spawned
ProbeCall(op, runtime, file, spawned) ==
    /\ probe.pc = "idle"
    /\ probe.calls < MaxProbes
    /\ LET called == [probe EXCEPT !.calls = @ + 1, !.op = op,
                                   !.runtime = runtime,
                                   !.runner = RunnerOf(op, runtime),
                                   !.elapsed = 0, !.child = "none",
                                   !.success = FALSE, !.stdout = "garbage",
                                   !.result = None]
       IN IF op = "check_available" /\ runtime = "SwiftNative"
             /\ file /= "executable"
          THEN probe' = [called EXCEPT !.result = Some(FALSE)]
          ELSE IF ~spawned \/ (runtime = "SwiftNative" /\ file /= "executable")
          THEN probe' = [called EXCEPT !.result = Some(FALSE)]
          ELSE probe' = [called EXCEPT
                            !.child = "running",
                            !.pc = IF RunnerOf(op, runtime) = "status"
                                   THEN "status" ELSE "try_wait"]
    /\ ProbeFrame

\* the probed program exits, with any status and output; it is under no
\* obligation to
ProbeChildExit ==
    /\ probe.child = "running"
    /\ \E success \in BOOLEAN, stdout \in {"garbage", "object"} :
         probe' = [probe EXCEPT !.child = "exited", !.success = success,
                                !.stdout = stdout]
    /\ ProbeFrame

\* registry.rs lines 115-124: one turn of the loop of
\* command_output_with_timeout up to the sleep
ProbeTryWait ==
    /\ probe.pc = "try_wait"
    /\ IF probe.child = "exited"
       THEN probe' = [probe EXCEPT !.pc = "output"]
       ELSE IF probe.elapsed >= TimeoutPolls
       THEN probe' = [probe EXCEPT !.child = "killed", !.pc = "idle",
                                   !.result = Some(FALSE)]
       ELSE probe' = [probe EXCEPT !.pc = "sleep"]
    /\ ProbeFrame

\* registry.rs line 124: the sleep of 25 ms returns, at least that much later
ProbeSleep ==
    /\ probe.pc = "sleep"
    /\ \E now \in (probe.elapsed + 1)..TimeoutPolls :
         probe' = [probe EXCEPT !.elapsed = now, !.pc = "try_wait"]
    /\ ProbeFrame

\* registry.rs lines 133-138, 163-166, 245-247, 255-256: the output of the
\* exited program is collected and parsed
ProbeOutput ==
    /\ probe.pc = "output"
    /\ ProbeReturn(probe.success
                   /\ IsSome(ParseCapabilitiesOutput(probe.stdout)))
    /\ ProbeFrame

\* registry.rs lines 91-99: Command::status() returns when the program has
\* exited, and only then
ProbeStatus ==
    /\ probe.pc = "status"
    /\ probe.child = "exited"
    /\ ProbeReturn(probe.success)
    /\ ProbeFrame

\* the steps of the thread that probes
ProbeStep ==
    \/ ProbeTryWait
    \/ ProbeSleep
    \/ ProbeOutput
    \/ ProbeStatus

NextProbe ==
    \/ \E op \in ProbeOps, runtime \in ProbeRuntimes, file \in FileStates,
          spawned \in BOOLEAN : ProbeCall(op, runtime, file, spawned)
    \/ ProbeChildExit
    \/ ProbeTryWait
    \/ ProbeSleep
    \/ ProbeOutput
    \/ ProbeStatus

SpecProbe == Init /\ [][NextProbe]_vars

\* the probing thread keeps running; the probed program is under no
\* obligation to exit
FairSpecProbe == SpecProbe /\ WF_vars(ProbeStep)

\* ------------------------------------------------- start_transcription
\* start_transcription calls made over a run
MaxStarts == 3

\* the session ids generate_manifest hands out, in this order
SessionOrder == <<"A", "B">>

\* the session id of the start_transcription call in progress, once
\* generate_manifest has returned
StartSession == SessionOrder[start.sessions]

\* queue items handed to start_transcription: none, or the two files
StartItems == {<<>>, <<"f1", "f2">>}

\* model strings handed to start_transcription
StartModels == {<<"v", "3">>, <<"x">>, <<>>, <<".", ".", "/">>}

\* the output directory handed to start_transcription
OutputDir == "out"

\* machines start_transcription runs on: every probe passing, the worker
\* binary missing, uv not working
StartEnvs ==
    {HealthyEnv, [HealthyEnv EXCEPT !.binary = "missing"],
     [HealthyEnv EXCEPT !.uv = FALSE]}

\* lib.rs lines 1297-1301
StartSettings ==
    [swift_binary_override |-> Some(SwiftBinary),
     models_root_override |-> Some(ModelsRoot), check_availability |-> TRUE]

\* resolver.rs lines 33-41: Display of ProviderError
ErrorToString(error) ==
    IF error.kind = "NotFound" THEN <<"Provider not found: ", error.value>>
    ELSE IF error.kind = "Unavailable"
    THEN <<"Provider is unavailable: ", error.value>>
    ELSE <<"Invalid model value: ", error.value>>

\* what a start_transcription call can change, as it is right now
StartSnapshot ==
    [slot |-> ACTIVE_PROCESS, proc |-> proc, emitted |-> emitted, fs |-> fs,
     dirs |-> outputDirs]

\* start_transcription returns
StartReturn(result, cause) ==
    start' = [start EXCEPT !.pc = "idle", !.result = Some(result), !.cause = cause]

\* what no step of start_transcription touches
StartFrame ==
    UNCHANGED <<procStatus, signals, childLock, linesRead, latest_summary,
                fatal_error, file_outcomes, streamExit, notified, stopVars, pipeVars,
                storeVars, notifyVars, genPc, genArgs, genManifest, tmpSynced,
                genResult, resolveCall, probe>>

\* lib.rs lines 1284-1295: the items are checked and the output directory is
\* created
StartBeginWith(items, provider, model, env, created) ==
    /\ start.pc = "idle"
    /\ start.calls < MaxStarts
    /\ start.sessions < Len(SessionOrder)
    /\   LET called == [start EXCEPT
                            !.calls = @ + 1,
                            !.args = Some([items |-> items, provider |-> provider,
                                           model |-> model, output_dir |-> OutputDir,
                                           env |-> env]),
                            !.runtime = None,
                            !.before = Some(StartSnapshot),
                            !.result = None,
                            !.cause = "none"]
         IN IF items = <<>>
            THEN /\ start' = [called EXCEPT
                                 !.result = Some(Err(<<"No queue items provided">>)),
                                 !.cause = "items"]
                 /\ UNCHANGED outputDirs
            ELSE IF ~created
            THEN /\ start' = [called EXCEPT
                                 !.result = Some(Err(<<"Failed to create output directory ",
                                                       OutputDir>>)),
                                 !.cause = "output_dir"]
                 /\ UNCHANGED outputDirs
            ELSE /\ start' = [called EXCEPT !.pc = "resolve"]
                 /\ outputDirs' = outputDirs \cup {OutputDir}
    /\ UNCHANGED <<ACTIVE_PROCESS, launchVars, proc, stdoutOpen, stderrOpen,
                   streamPc, emitted, fs>>
    /\ StartFrame

StartBegin ==
    \E items \in StartItems, provider \in ProviderIds, model \in StartModels,
       env \in StartEnvs, created \in BOOLEAN :
        StartBeginWith(items, provider, model, env, created)

\* lib.rs lines 1297-1304: the runtime is resolved with the availability
\* check on
StartResolve ==
    /\ start.pc = "resolve"
    /\ LET args == Unwrap(start.args)
           resolved == ResolveProvider(args.provider, args.model, StartSettings,
                                       args.env)
       IN IF resolved.ok
          THEN start' = [start EXCEPT !.pc = "generate",
                                      !.runtime = resolved.runtime]
          ELSE StartReturn(Err(ErrorToString(Unwrap(resolved.error))),
                           Unwrap(resolved.error).kind)
    /\ UNCHANGED <<ACTIVE_PROCESS, launchVars, proc, stdoutOpen, stderrOpen,
                   streamPc, emitted, fs, outputDirs>>
    /\ StartFrame

\* lib.rs lines 1311-1312: generate_manifest writes the manifest of a new
\* session id, or fails
StartGenerate ==
    /\ start.pc = "generate"
    /\ \E written \in BOOLEAN :
         IF written
         THEN /\ fs' = [fs EXCEPT ![ManifestPath(SessionOrder[start.sessions + 1])] =
                            Some(FileContent("manifest", PayloadChunks))]
              /\ start' = [start EXCEPT !.pc = "launch", !.sessions = @ + 1]
         ELSE /\ StartReturn(Err(<<"Failed to write manifest">>), "manifest")
              /\ UNCHANGED fs
    /\ UNCHANGED <<ACTIVE_PROCESS, launchVars, proc, stdoutOpen, stderrOpen,
                   streamPc, emitted, outputDirs>>
    /\ StartFrame

\* lib.rs line 1332, manifest.rs lines 210-221: the manifest is removed, if
\* it can be; the error is dropped
CleanupManifest(s) ==
    \E removed \in BOOLEAN :
        fs' = IF removed THEN [fs EXCEPT ![ManifestPath(s)] = None] ELSE fs

\* a start_transcription that cleans the manifest up whatever launch() returned
ManifestAfterLaunchAlways(s, launched) == CleanupManifest(s)

\* lib.rs lines 1321-1334: the manifest is cleaned up when launch() returned
\* an error, and only then
ManifestAfterLaunch(s, launched) ==
    IF launched THEN UNCHANGED fs ELSE CleanupManifest(s)

\* lib.rs lines 1320-1334, launcher.rs lines 402-561: launch() as a whole.
\* It is refused when the slot is taken; otherwise worker_started is emitted
\* and the worker spawned and registered, or the spawn fails.  After a
\* failure the manifest is cleaned up.
StartLaunch ==
    /\ start.pc = "launch"
    /\ LET s == StartSession
       IN IF IsSome(ACTIVE_PROCESS)
          THEN /\ launchPc' = [launchPc EXCEPT ![s] = "returned"]
               /\ launchResult' = [launchResult EXCEPT ![s] =
                       Some(Err(<<"A transcription session is already running">>))]
               /\ ManifestAfterLaunch(s, FALSE)
               /\ StartReturn(Err(<<"A transcription session is already running">>),
                              "launch")
               /\ UNCHANGED <<ACTIVE_PROCESS, proc, stdoutOpen, stderrOpen,
                              streamPc, emitted>>
          ELSE /\ Emit(s, [event |-> "worker_started", session_id |-> s])
               /\ \E spawned \in BOOLEAN :
                    IF spawned
                    THEN /\ proc' = [proc EXCEPT ![s] = "running"]
                         /\ stdoutOpen' = [stdoutOpen EXCEPT ![s] = TRUE]
                         /\ stderrOpen' = [stderrOpen EXCEPT ![s] = TRUE]
                         /\ ACTIVE_PROCESS' = Some(ActiveProcess(s))
                         /\ streamPc' = [streamPc EXCEPT ![s] = "reading"]
                         /\ launchPc' = [launchPc EXCEPT ![s] = "returned"]
                         /\ launchResult' = [launchResult EXCEPT ![s] = Some(Ok)]
                         /\ start' = [start EXCEPT !.pc = "emit"]
                         /\ ManifestAfterLaunch(s, TRUE)
                    ELSE /\ launchPc' = [launchPc EXCEPT ![s] = "returned"]
                         /\ launchResult' = [launchResult EXCEPT ![s] =
                                 Some(Err(<<"Failed to launch worker">>))]
                         /\ ManifestAfterLaunch(s, FALSE)
                         /\ StartReturn(Err(<<"Failed to launch worker">>), "launch")
                         /\ UNCHANGED <<ACTIVE_PROCESS, proc, stdoutOpen,
                                        stderrOpen, streamPc>>
    /\ UNCHANGED outputDirs
    /\ StartFrame

\* lib.rs lines 1336-1347: the start event is emitted and the session id
\* returned; a failure to emit is returned as an error
StartEmit ==
    /\ start.pc = "emit"
    /\ \E sent \in BOOLEAN :
         IF sent
         THEN /\ Emit(StartSession,
                      [event |-> "start", session_id |-> StartSession,
                       provider |-> Unwrap(start.args).provider,
                       model |-> Unwrap(start.args).model])
              /\ StartReturn([ok |-> TRUE, error |-> <<>>,
                              session_id |-> StartSession], "none")
         ELSE /\ StartReturn(Err(<<"Failed to emit start event">>), "emit")
              /\ UNCHANGED emitted
    /\ UNCHANGED <<ACTIVE_PROCESS, launchVars, proc, stdoutOpen, stderrOpen,
                   streamPc, fs, outputDirs>>
    /\ StartFrame

NextStart ==
    \/ StartBegin
    \/ StartResolve
    \/ StartGenerate
    \/ StartLaunch
    \/ StartEmit

\* start_transcription calls one after the other, on a machine in any state,
\* while the workers they start keep running
SpecStart == Init /\ [][NextStart]_vars

\* a start_transcription call with arguments and a machine that take it as
\* far as launch()
StartBeginGood ==
    StartBeginWith(<<"f1", "f2">>, COREML_PROVIDER_ID, <<"v", "3">>,
                   HealthyEnv, TRUE)

\* ------------------------------------------------------- specification
LaunchStep(s) ==
    \/ LaunchCheck(s)
    \/ LaunchEmitStarted(s)
    \/ LaunchSpawn(s)
    \/ LaunchRegister(s)

WorkerStep(s) ==
    \/ WorkerExit(s)
    \/ WorkerCloseStdout(s)
    \/ WorkerCloseStderr(s)

StreamStep(s) ==
    \/ StreamReadLine(s)
    \/ StreamStdoutEof(s)
    \/ StreamJoinStderr(s)
    \/ StreamWaitLock(s)
    \/ StreamWaitReturn(s)
    \/ StreamArchive(s)
    \/ StreamEmitFinished(s)
    \/ StreamEmitSummary(s)
    \/ StreamNotify(s)
    \/ StreamClear(s)

StopStep ==
    \/ StopSigterm
    \/ StopSigtermKill
    \/ StopPoll
    \/ StopForceKill
    \/ StopClear
    \/ StopWaitLock
    \/ StopWaitReturn
    \/ StopArchive
    \/ StopEmitStopped
    \/ StopEmitSummary

\* the stream task of a worker that writes nothing on stdout
QuietStreamStep(s) ==
    \/ StreamStdoutEof(s)
    \/ StreamJoinStderr(s)
    \/ StreamWaitLock(s)
    \/ StreamWaitReturn(s)
    \/ StreamArchive(s)
    \/ StreamEmitFinished(s)
    \/ StreamEmitSummary(s)
    \/ StreamNotify(s)
    \/ StreamClear(s)

\* One start_transcription call whose worker writes any lines on stdout, read
\* by the stream task at its own pace, and no stop() call.
NextReader ==
    \/ LaunchStep(FirstSession)
    \/ WorkerWriteLine(FirstSession)
    \/ WorkerStep(FirstSession)
    \/ StreamNextLine(FirstSession)
    \/ QuietStreamStep(FirstSession)

SpecReader == Init /\ [][NextReader]_vars

\* the lines a worker writes on either pipe when both are looked at: a line
\* of text and a line of bytes that are not valid UTF-8
StreamLines == {TextLine(<<"x">>), BytesLine(<<"y">>)}

\* the steps of the stream task up to the end of its stdout loop
StdoutLoopStep(s) ==
    \/ StreamNextLine(s)
    \/ StreamStdoutEof(s)

\* One start_transcription call whose worker writes lines on stdout and on
\* stderr, the stream task and its stderr thread each reading at its own
\* pace, and no stop() call.
NextStreams ==
    \/ LaunchStep(FirstSession)
    \/ WorkerWrite(FirstSession, StreamLines)
    \/ WorkerWriteStderr(FirstSession, StreamLines)
    \/ WorkerStep(FirstSession)
    \/ StreamNextLine(FirstSession)
    \/ StderrNextLine(FirstSession)
    \/ QuietStreamStep(FirstSession)

SpecStreams == Init /\ [][NextStreams]_vars

\* launch() and the stream task keep running; the stderr thread is under no
\* obligation to make progress, nor the worker to exit or to close its pipes
FairSpecStreams ==
    /\ SpecStreams
    /\ WF_vars(LaunchStep(FirstSession))
    /\ WF_vars(StdoutLoopStep(FirstSession))

\* launch(), the stream task and its stderr thread all keep running; the
\* worker is under no obligation to exit or to close its pipes
FairSpecExit ==
    /\ SpecStreams
    /\ WF_vars(LaunchStep(FirstSession))
    /\ WF_vars(StreamNextLine(FirstSession) \/ QuietStreamStep(FirstSession))
    /\ WF_vars(StderrNextLine(FirstSession))

\* the stdout lines of a worker whose events repeat: two summaries, three
\* fatal_error events (one without an error string) and outcome events that
\* name the same path more than once
AccumLines ==
    {JsonLine([event |-> "summary", total |-> U64(2), processed |-> U64(1),
               skipped |-> U64(0), failed |-> U64(0)]),
     JsonLine([event |-> "summary", total |-> U64(2), processed |-> U64(1),
               skipped |-> U64(0), failed |-> U64(1)]),
     JsonLine([event |-> "fatal_error", error |-> "oom"]),
     JsonLine([event |-> "fatal_error", error |-> "crash"]),
     JsonLine([event |-> "fatal_error"]),
     JsonLine([event |-> "file_done", file |-> "f1",
               output |-> [txt |-> <<"f1", "txt">>, json |-> <<"f1", "json">>]]),
     JsonLine([event |-> "file_failed", file |-> "f1", error |-> "decode"]),
     JsonLine([event |-> "file_failed", file |-> "f2", error |-> "decode"])}

\* One start_transcription call whose worker writes such lines and closes its
\* stdout, and the stdout loop of the stream task.
NextAccum ==
    \/ LaunchStep(FirstSession)
    \/ WorkerWrite(FirstSession, AccumLines)
    \/ WorkerCloseStdout(FirstSession)
    \/ StdoutLoopStep(FirstSession)

SpecAccum == Init /\ [][NextAccum]_vars

\* One start_transcription call (session FirstSession) with any worker
\* behaviour, and stop() calls for any session id.
Next ==
    \/ LaunchStep(FirstSession)
    \/ WorkerStep(FirstSession)
    \/ StreamStep(FirstSession)
    \/ \E s \in SessionIds : StopBegin(s)
    \/ StopStep

Spec == Init /\ [][Next]_vars

\* Concurrent start_transcription calls, one per session id, whose workers
\* write nothing on stdout, and no stop() call.
NextAdmission ==
    \/ \E s \in SessionIds : LaunchStep(s)
    \/ \E s \in SessionIds : WorkerStep(s)
    \/ \E s \in SessionIds : QuietStreamStep(s)

SpecAdmission == Init /\ [][NextAdmission]_vars

\* One session from start_transcription to its end: a call that reaches
\* launch(), a worker that writes nothing and exits, its stream task, stop()
\* calls for it, and deletions of its history record.
NextLifecycle ==
    \/ start.calls = 0 /\ StartBeginGood
    \/ StartResolve
    \/ StartGenerate
    \/ StartLaunch
    \/ StartEmit
    \/ WorkerExit(FirstSession)
    \/ QuietStreamStep(FirstSession)
    \/ StopBegin(FirstSession)
    \/ StopStep
    \/ IsSome(StoredRecord(FirstSession)) /\ HistoryDelete(FirstSession)

SpecLifecycle == Init /\ [][NextLifecycle]_vars

\* stop() and the stream task are threads that keep running once started; the
\* worker is under no obligation to exit or to close its pipes.
FairSpec ==
    /\ Spec
    /\ WF_vars(StopStep)
    /\ WF_vars(StreamStep(FirstSession))

\* ------------------------------ archive() and list() statement by statement
\* get_sessions_with_path calls made over a run
MaxLists == 2

\* another connection reads the rows of a transaction once it has committed
VisibleUncommitted(committed, t) == IF t.pc = "idle" THEN committed ELSE t.db

\* history.rs lines 251-253, 320: the statements of save_session_record run
\* in a transaction, so another connection reads the committed rows until
\* the commit
Visible(committed, t) == committed

\* a save_session_record call ends in failure: the transaction is dropped
\* and with it rolled back
TxnFail ==
    /\ txn' = IdleTxn(Some(FALSE))
    /\ UNCHANGED <<history, archiveLog, lastArchive>>

\* history.rs lines 475-487, 251-253: archive_session_with_path builds the
\* record, opens the database and the transaction
TxnBegin(s, inputs) ==
    /\ txn.pc = "idle"
    /\ Len(archiveLog[s]) < MaxArchives
    /\ \E in \in inputs, ok \in BOOLEAN :
         IF ok
         THEN /\ txn' = [pc |-> "upsert", id |-> s, in |-> Some(in),
                         session |-> Some(BuildSessionRecord(in.manifest, s,
                                            in.summary, in.exit_code,
                                            in.status, in.outcomes)),
                         db |-> history, before |-> history, rest |-> <<>>,
                         result |-> None]
              /\ UNCHANGED <<history, archiveLog, lastArchive>>
         ELSE TxnFail
    /\ UNCHANGED <<deletes, listing, launcherVars, sideVars>>

\* history.rs lines 255-278: INSERT OR REPLACE INTO sessions
TxnUpsert ==
    /\ txn.pc = "upsert"
    /\ \E ok \in BOOLEAN :
         IF ok
         THEN /\ txn' = [txn EXCEPT !.pc = "clear",
                           !.db = ReplaceSession(@, SessionRow(Unwrap(txn.session)))]
              /\ UNCHANGED <<history, archiveLog, lastArchive>>
         ELSE TxnFail
    /\ UNCHANGED <<deletes, listing, launcherVars, sideVars>>

\* history.rs lines 280-290: DELETE FROM session_files WHERE session_id = ?
TxnClear ==
    /\ txn.pc = "clear"
    /\ \E ok \in BOOLEAN :
         IF ok
         THEN /\ txn' = [txn EXCEPT !.pc = "files",
                           !.db = DeleteSessionFiles(@, txn.id),
                           !.rest = Unwrap(txn.session).files]
              /\ UNCHANGED <<history, archiveLog, lastArchive>>
         ELSE TxnFail
    /\ UNCHANGED <<deletes, listing, launcherVars, sideVars>>

\* history.rs lines 292-317: INSERT INTO session_files for the next file; it
\* fails on the primary key of a row that is already there
TxnInsertFile ==
    /\ txn.pc = "files"
    /\ txn.rest /= <<>>
    /\ LET row == FileRow(txn.id, Head(txn.rest))
       IN \E ok \in BOOLEAN :
            IF ok /\ ~\E f \in txn.db.session_files : FileKey(f) = FileKey(row)
            THEN /\ txn' = [txn EXCEPT !.db.session_files = @ \cup {row},
                              !.rest = Tail(@)]
                 /\ UNCHANGED <<history, archiveLog, lastArchive>>
            ELSE TxnFail
    /\ UNCHANGED <<deletes, listing, launcherVars, sideVars>>

\* history.rs line 82: the database is opened in the default journal mode,
\* in which a commit needs the exclusive lock, which it does not get while
\* another connection is reading
CommitAllowed == listing.pc = "idle"

\* history.rs lines 320-322: COMMIT
TxnCommit ==
    /\ txn.pc = "files"
    /\ txn.rest = <<>>
    /\ \E ok \in BOOLEAN :
         IF ok /\ CommitAllowed
         THEN /\ history' = txn.db
              /\ archiveLog' = [archiveLog EXCEPT ![txn.id] =
                                    Append(@, Unwrap(txn.in).status)]
              /\ lastArchive' = [lastArchive EXCEPT ![txn.id] = txn.in]
              /\ txn' = IdleTxn(Some(TRUE))
         ELSE TxnFail
    /\ UNCHANGED <<deletes, listing, launcherVars, sideVars>>

TxnStep ==
    \/ TxnUpsert
    \/ TxnClear
    \/ TxnInsertFile
    \/ TxnCommit

\* the rows of table sessions as a SELECT returns them, one after the other
SessionRows(db) ==
    LET ids == SelectSeq(SessionOrder, LAMBDA s : \E r \in db.sessions : r.id = s)
    IN [i \in 1..Len(ids) |-> CHOOSE r \in db.sessions : r.id = ids[i]]

\* history.rs lines 362-391: get_sessions_with_path opens the database and
\* runs SELECT ... FROM sessions; the statement stays open while the rows
\* are visited
ListBegin ==
    /\ listing.pc = "idle"
    /\ listing.calls < MaxLists
    /\ listing' = [pc |-> "rows", calls |-> listing.calls,
                   rows |-> SessionRows(Visible(history, txn)),
                   result |-> <<>>, at |-> history]
    /\ UNCHANGED <<history, archiveLog, lastArchive, deletes, txn, launcherVars,
                   sideVars>>

\* history.rs lines 393-442, 325-360: the next session row is decoded and
\* load_session_files runs SELECT ... FROM session_files WHERE session_id = ?
ListLoadFiles ==
    /\ listing.pc = "rows"
    /\ listing.rows /= <<>>
    /\ LET row == Head(listing.rows)
           files == {f \in Visible(history, txn).session_files :
                        f.session_id = row.id}
       IN listing' = [listing EXCEPT !.rows = Tail(@),
                        !.result = Append(@, [row |-> row, files |-> files])]
    /\ UNCHANGED <<history, archiveLog, lastArchive, deletes, txn, launcherVars,
                   sideVars>>

\* history.rs line 444: Ok(sessions)
ListReturn ==
    /\ listing.pc = "rows"
    /\ listing.rows = <<>>
    /\ listing' = IdleListing(listing.calls + 1, listing.result)
    /\ UNCHANGED <<history, archiveLog, lastArchive, deletes, txn, launcherVars,
                   sideVars>>

ListStep ==
    \/ ListBegin
    \/ ListLoadFiles
    \/ ListReturn

\* the arguments of the archive() calls made next to list(): any manifest, as
\* completed or cancelled, for the first session, fixed ones for every other
IsolationInputs(s) ==
    IF s = FirstSession
    THEN [manifest : HistoryManifests, summary : {None}, exit_code : {0},
          status : {"completed", "cancelled"}, outcomes : {EmptyOutcomes}]
    ELSE {[manifest |-> ManifestFiles, summary |-> None, exit_code |-> 0,
           status |-> "completed", outcomes |-> EmptyOutcomes]}

\* archive() calls for any session, one at a time, and list() calls, their
\* statements in any order
NextIsolation ==
    \/ \E s \in SessionIds : TxnBegin(s, IsolationInputs(s))
    \/ TxnStep
    \/ ListStep

SpecIsolation == Init /\ [][NextIsolation]_vars

\* Two start_transcription calls, stop() calls for the first session, and
\* the worker and the stream task of the first session; the worker of the
\* second session keeps running.
NextHandover ==
    \/ \E s \in SessionIds : LaunchStep(s)
    \/ WorkerExit(FirstSession)
    \/ QuietStreamStep(FirstSession)
    \/ StopBegin(FirstSession)
    \/ StopStep

SpecHandover == Init /\ [][NextHandover]_vars

\* ------------------------------------- the arguments of a native worker
\* Path::to_string_lossy: the components of a path, joined by "/"
RECURSIVE JoinComponents(_)
JoinComponents(components) ==
    IF components = <<>> THEN <<>>
    ELSE IF Len(components) = 1 THEN components[1]
    ELSE components[1] \o <<"/">> \o JoinComponents(Tail(components))

PathString(path) ==
    IF path /= <<>> /\ Head(path) = <<"/">>
    THEN <<"/">> \o JoinComponents(Tail(path))
    ELSE JoinComponents(path)

\* launcher.rs lines 87-94
InferModelVersionFromModelDir(model_dir) ==
    IF Contains(ToAsciiLowercase(PathString(model_dir)), <<"v", "2">>)
    THEN "v2"
    ELSE "v3"

\* launcher.rs lines 104-111: the arguments command_args_for_runtime adds for
\* a native runtime, none for any other
ModelArgsForRuntime(runtime) ==
    IF runtime.type = "SwiftNative"
    THEN <<[flag |-> "--model-dir", value |-> PathString(runtime.model_dir)],
           [flag |-> "--model-version",
            value |-> InferModelVersionFromModelDir(runtime.model_dir)]>>
    ELSE <<>>

\* models roots: the one start_transcription passes and one whose name has
\* "v2" in it
VersionRoots == {ModelsRoot, <<(<<"/">>), <<"v", "2">>>>}

\* lib.rs lines 1297-1330: one resolve_provider call for the native provider
\* with any model string, and the arguments launch() builds for its runtime
VersionCall ==
    /\ resolveCall = None
    /\ \E model \in ModelStrings, root \in VersionRoots :
         LET settings == [swift_binary_override |-> Some(SwiftBinary),
                          models_root_override |-> Some(root),
                          check_availability |-> FALSE]
             result == ResolveProvider(COREML_PROVIDER_ID, model, settings,
                                       HealthyEnv)
         IN resolveCall' = Some([id |-> COREML_PROVIDER_ID, model |-> model,
                                 settings |-> settings, env |-> HealthyEnv,
                                 result |-> result,
                                 args |-> IF result.ok
                                          THEN ModelArgsForRuntime(Unwrap(result.runtime))
                                          ELSE <<>>])
    /\ UNCHANGED <<launcherVars, storeVars, notifyVars, manifestVars, start,
                   outputDirs, probe>>

NextVersion == VersionCall

SpecVersion == Init /\ [][NextVersion]_vars

\* the worker of s has exited with no signal sent to it and no stop() call in
\* progress, and the stream task has archived the session as completed or
\* failed
ArchivedAfterOwnExit(s) ==
    /\ proc[s] = "exited"
    /\ signals[s] = {}
    /\ stopPc = "idle"
    /\ archiveLog[s] /= <<>>
    /\ archiveLog[s][Len(archiveLog[s])] \in {"completed", "failed"}

\* One start_transcription call whose worker exits by itself, and a stop()
\* call that arrives after the stream task has archived the session.  The
\* poll of such a stop() finds the worker exited, so it never gets to
\* force_kill.
NextLateStop ==
    \/ LaunchStep(FirstSession)
    \/ WorkerExit(FirstSession)
    \/ QuietStreamStep(FirstSession)
    \/ ArchivedAfterOwnExit(FirstSession) /\ StopBegin(FirstSession)
    \/ StopSigterm
    \/ StopSigtermKill
    \/ StopPoll
    \/ StopClear
    \/ StopWaitLock
    \/ StopWaitReturn
    \/ StopArchive
    \/ StopEmitStopped
    \/ StopEmitSummary

SpecLateStop == Init /\ [][NextLateStop]_vars

\* =================================================================== claims

\* C1: at most one worker subprocess started by launch() is alive at any time,
\* in every interleaving of concurrent launch() calls.
C1_AtMostOneLiveWorker ==
    Cardinality({s \in SessionIds : proc[s] = "running"}) <= 1

BusyError == Err(<<"A transcription session is already running">>)

\* C2: a launch() that finds the slot occupied returns an error in that step,
\* leaves the slot, every process and every event log as they are, and the
\* session it was called for never gets a process, an event or a stream task.
C2_LaunchWhileActiveRejected ==
    /\ [](\A s \in SessionIds :
            launchResult[s] = Some(BusyError) =>
                /\ proc[s] = "none"
                /\ emitted[s] = <<>>
                /\ streamPc[s] = "none")
    /\ [][\A s \in SessionIds :
            (launchPc[s] = "idle" /\ launchPc'[s] /= "idle" /\ IsSome(ACTIVE_PROCESS)) =>
                /\ launchPc'[s] = "returned"
                /\ launchResult'[s] = Some(BusyError)
                /\ UNCHANGED <<ACTIVE_PROCESS, procVars, emitted, signals>>]_vars

\* a launch() was rejected while the other session's worker was running
C2_Witness ==
    \E s, o \in SessionIds :
        /\ s /= o
        /\ launchResult[s] = Some(BusyError)
        /\ ACTIVE_PROCESS = Some(ActiveProcess(o))
        /\ proc[o] = "running"

\* C3: a stop() that attempted termination leaves the slot empty when it
\* returns, whether it returns success or an error.
C3_SlotEmptyWhenStopReturns ==
    [][(stopPc /= "idle" /\ stopPc' = "idle") => ACTIVE_PROCESS' = None]_vars

\* C4: the SessionRecord of a session is committed to the history store at
\* most once over the session's lifetime, never by stop() and by the stream
\* task both.
C4_RecordWrittenOnce ==
    \A s \in SessionIds : Len(archiveLog[s]) <= 1

StopArchived(s) == \E i \in 1..Len(archiveLog[s]) : archiveLog[s][i] = "cancelled"

\* C5: once stop() has returned success for a session whose cancelled record
\* it committed, the history status of that session is "cancelled", also
\* after the stream task has finished its exit handling.
C5_CancelledAfterStop ==
    \A s \in SessionIds :
        (stopOutcome[s] = "ok" /\ StopArchived(s)) =>
            /\ IsSome(StoredRecord(s))
            /\ Unwrap(StoredRecord(s)).status = "cancelled"

\* C6: in an archived cancelled record a file keeps the outcome the worker
\* reported for it, and only the files without one are "cancelled".
C6_CancelledKeepsOutcomes ==
    \A s \in SessionIds :
        (IsSome(StoredRecord(s)) /\ Unwrap(StoredRecord(s)).status = "cancelled") =>
            \A f \in Files :
                \E row \in StoredFiles(s) :
                    /\ row.path = f
                    /\ row.status =
                            IF f \in DOMAIN file_outcomes[s]
                            THEN file_outcomes[s][f].status
                            ELSE "cancelled"

\* C7: a stop() that attempts termination always returns, whatever the worker
\* and the stream task do.
C7_StopAlwaysReturns == (stopPc /= "idle") ~> (stopPc = "idle")

MismatchError(active, requested) ==
    Err(<<"Session mismatch: active=", active, ", requested=", requested>>)

\* C8: stop(requested) while a session with another id is active returns, in
\* that step, an error naming both ids, and changes nothing else: no signal,
\* no history write, no event, the slot and every process as they were.
C8_StopMismatchRejected ==
    [][(stopCalls' = stopCalls + 1 /\ IsSome(ACTIVE_PROCESS)
            /\ Unwrap(ACTIVE_PROCESS).session_id /= stopReq') =>
          /\ stopResult' =
                Some(MismatchError(Unwrap(ACTIVE_PROCESS).session_id, stopReq'))
          /\ stopPc' = "idle"
          /\ UNCHANGED <<ACTIVE_PROCESS, signals, storeVars, emitted, procVars,
                         childLock, stopOutcome>>]_vars

\* stop("B") was refused while the worker of the active session A runs
C8_Witness ==
    /\ stopResult = Some(MismatchError("A", "B"))
    /\ ACTIVE_PROCESS = Some(ActiveProcess("A"))
    /\ proc["A"] = "running"

\* C9: stop() while the slot is empty returns success in that step and changes
\* nothing observable, however often it is called.
C9_StopIdleNoOp ==
    [][(stopCalls' = stopCalls + 1 /\ ACTIVE_PROCESS = None) =>
          /\ stopResult' = Some(Ok)
          /\ stopPc' = "idle"
          /\ UNCHANGED <<ACTIVE_PROCESS, signals, storeVars, emitted, procVars,
                         childLock, stopOutcome, launchVars, streamVars>>]_vars

\* stop() was called twice with the slot empty both times and returned Ok
C9_Witness ==
    /\ stopCalls >= 2
    /\ stopResult = Some(Ok)
    /\ ACTIVE_PROCESS = None
    /\ \A s \in SessionIds : stopOutcome[s] = "none"

\* exit code of an exited worker as the operating system reports it
ProcessExitCode(s) == IF procStatus[s] = <<>> THEN -1 ELSE procStatus[s][1]

SuccessCode(code) == code \in {0, 2}

\* C10: for a session no stop() was attempted on, everything the stream task
\* reports about the exit classifies the worker's exit code the same way:
\* completed exactly for 0 and 2, failed otherwise (-1 for no exit code).
C10_ExitClassification ==
    \A s \in SessionIds :
        (stopOutcome[s] = "none" /\ proc[s] = "exited") =>
            LET code == ProcessExitCode(s)
                status == IF SuccessCode(code) THEN "completed" ELSE "failed"
            IN /\ \A i \in 1..Len(emitted[s]) :
                    /\ emitted[s][i].event = "worker_finished" =>
                         /\ emitted[s][i].exit_code = code
                         /\ emitted[s][i].success = SuccessCode(code)
                    /\ emitted[s][i].event = "session_summary" =>
                         /\ emitted[s][i].exit_code = code
                         /\ emitted[s][i].status = status
               /\ IsSome(StoredRecord(s)) =>
                    /\ Unwrap(StoredRecord(s)).status = status
                    /\ Unwrap(StoredRecord(s)).exit_code = code
               /\ notified[s] = "completion" => SuccessCode(code)
               /\ notified[s] = "failure" => ~SuccessCode(code)
               /\ streamPc[s] = "done" =>
                    \E i \in 1..Len(emitted[s]) :
                        /\ emitted[s][i].event = "session_summary"
                        /\ emitted[s][i].status = status

\* a session ended with the partial-success code 2, was archived and notified
\* as completed, and no stop() touched it
C10_Witness ==
    \E s \in SessionIds :
        /\ stopOutcome[s] = "none"
        /\ streamPc[s] = "done"
        /\ procStatus[s] = Some(2)
        /\ IsSome(StoredRecord(s)) /\ Unwrap(StoredRecord(s)).status = "completed"
        /\ notified[s] = "completion"

\* the events of session s carrying this event name, in emission order
EventsNamed(s, name) ==
    SelectSeq(emitted[s], LAMBDA ev : ev.event = name)

\* C13: whether or not the archive call succeeded, a stream task that has
\* ended has emitted worker_finished and then a completed or failed
\* session_summary, and a stop() that returned success has emitted
\* worker_stopped and then a cancelled session_summary and left the slot
\* without its session.
C13_ArchiveFailureKeepsEvents ==
    \A s \in SessionIds :
        /\ streamPc[s] = "done" =>
              /\ Len(EventsNamed(s, "worker_finished")) = 1
              /\ \E i, j \in 1..Len(emitted[s]) :
                    /\ i < j
                    /\ emitted[s][i].event = "worker_finished"
                    /\ emitted[s][j].event = "session_summary"
                    /\ emitted[s][j].status \in {"completed", "failed"}
        /\ stopOutcome[s] = "ok" =>
              /\ \E i, j \in 1..Len(emitted[s]) :
                    /\ i < j
                    /\ emitted[s][i].event = "worker_stopped"
                    /\ emitted[s][j].event = "session_summary"
                    /\ emitted[s][j].status = "cancelled"
              /\ ACTIVE_PROCESS /= Some(ActiveProcess(s))

\* the stream task ended and stop() returned success for the same session
\* although neither of their archive calls committed anything
C13_Witness ==
    \E s \in SessionIds :
        /\ streamPc[s] = "done"
        /\ stopOutcome[s] = "ok"
        /\ archiveLog[s] = <<>>
        /\ StoredRecord(s) = None

\* number of stored file rows of session s with this status
StoredCount(s, st) == Cardinality({f \in StoredFiles(s) : f.status = st})

\* C20: the totals of every stored session row equal the count of its own
\* file rows: total the number of rows, processed, skipped and failed the
\* rows with status "success", "skipped" and "failed".
C20_TotalsAgreeWithRows ==
    \A s \in SessionIds :
        IsSome(StoredRecord(s)) =>
            /\ Unwrap(StoredRecord(s)).total = Cardinality(StoredFiles(s))
            /\ Unwrap(StoredRecord(s)).processed = StoredCount(s, "success")
            /\ Unwrap(StoredRecord(s)).skipped = StoredCount(s, "skipped")
            /\ Unwrap(StoredRecord(s)).failed = StoredCount(s, "failed")

\* the arguments of the last committed archive() of session s
LastArchive(s) == Unwrap(lastArchive[s])

\* C17: after any sequence of committed archive() calls the database holds,
\* for each archived session id, exactly one session row and exactly one file
\* row per file entry of the manifest of the last call, and no other file
\* row; a session that was never archived has no row at all.
C17_UpsertReplacesFileRows ==
    \A s \in SessionIds :
        IF IsSome(lastArchive[s])
        THEN LET manifest == LastArchive(s).manifest
             IN /\ Cardinality({r \in history.sessions : r.id = s}) = 1
                /\ Cardinality(StoredFiles(s)) = Len(manifest)
                /\ \A i \in 1..Len(manifest) :
                      Cardinality({f \in StoredFiles(s) :
                                    /\ f.file_id = manifest[i].id
                                    /\ f.path = manifest[i].path}) = 1
                /\ \A f \in StoredFiles(s) :
                      \E i \in 1..Len(manifest) :
                          /\ f.file_id = manifest[i].id
                          /\ f.path = manifest[i].path
        ELSE /\ StoredRecord(s) = None
             /\ StoredFiles(s) = {}

\* a session archived with two files was archived again with a manifest of
\* one file, and a second session is stored next to it
C17_Witness ==
    /\ Len(archiveLog[FirstSession]) = 2
    /\ Len(LastArchive(FirstSession).manifest) = 1
    /\ Cardinality(StoredFiles(FirstSession)) = 1
    /\ \E s \in SessionIds \ {FirstSession} : IsSome(StoredRecord(s))

\* the manifest entry a stored file row was built from
EntryOf(manifest, row) ==
    CHOOSE e \in {manifest[i] : i \in 1..Len(manifest)} :
        e.id = row.file_id /\ e.path = row.path

\* C18: in an archived record a file whose path has no entry in the outcome
\* map has status "cancelled" when the session status is "cancelled",
\* "failed" when it is "failed" and its manifest-declared status otherwise;
\* a file whose path has an entry has that entry's status, transcript path,
\* json path and error.
C18_FileRowsMergeOutcomes ==
    \A s \in SessionIds :
        IsSome(lastArchive[s]) =>
            \A row \in StoredFiles(s) :
                LET args == LastArchive(s)
                IN IF row.path \in DOMAIN args.outcomes
                   THEN /\ row.status = args.outcomes[row.path].status
                        /\ row.transcript_path = args.outcomes[row.path].transcript_path
                        /\ row.json_path = args.outcomes[row.path].json_path
                        /\ row.error = args.outcomes[row.path].error
                   ELSE row.status =
                          CASE args.status = "cancelled" -> "cancelled"
                            [] args.status = "failed" -> "failed"
                            [] OTHER -> EntryOf(args.manifest, row).status

\* a failed session was archived whose first file has a success outcome with
\* both paths and whose second file, declared "done", has none
C18_Witness ==
    /\ IsSome(lastArchive[FirstSession])
    /\ LastArchive(FirstSession).status = "failed"
    /\ \E r1, r2 \in StoredFiles(FirstSession) :
          /\ r1.path = "f1" /\ r1.status = "success"
          /\ r1.transcript_path = Some(<<"f1", "txt">>)
          /\ r2.path = "f2" /\ r2.status = "failed"
          /\ EntryOf(LastArchive(FirstSession).manifest, r2).status = "done"

\* the value of a u64 as the i32 column stores it: itself up to i32::MAX,
\* i32::MAX above
Clamped(value) == IF value.hi = 0 THEN value.lo ELSE I32_MAX

\* every stored file row of s whose path has a failed outcome carries the
\* error of that outcome
FailedErrorsStored(s) ==
    \A row \in StoredFiles(s) :
        (/\ row.path \in DOMAIN LastArchive(s).outcomes
         /\ LastArchive(s).outcomes[row.path].status = "failed")
            => row.error = LastArchive(s).outcomes[row.path].error

\* C19, as stated: the stored totals are the numbers of the supplied summary
\* when one is supplied and a recount of the record's file rows otherwise, and
\* the error of a file_failed outcome is on that file's row.
C19_TotalsAsStated ==
    \A s \in SessionIds :
        IsSome(lastArchive[s]) =>
            LET args == LastArchive(s)
                row == Unwrap(StoredRecord(s))
            IN /\ IF IsSome(args.summary)
                  THEN /\ U64(row.total) = Unwrap(args.summary).total
                       /\ U64(row.processed) = Unwrap(args.summary).processed
                       /\ U64(row.skipped) = Unwrap(args.summary).skipped
                       /\ U64(row.failed) = Unwrap(args.summary).failed
                  ELSE /\ row.total = Cardinality(StoredFiles(s))
                       /\ row.processed = StoredCount(s, "success")
                       /\ row.skipped = StoredCount(s, "skipped")
                       /\ row.failed = StoredCount(s, "failed")
               /\ FailedErrorsStored(s)

\* C19, amended: the stored totals are the numbers of the supplied summary,
\* each one above i32::MAX stored as i32::MAX, when a summary is supplied and
\* a recount of the record's file rows otherwise, and the error of a
\* file_failed outcome is on that file's row.
C19_TotalsClamped ==
    \A s \in SessionIds :
        IsSome(lastArchive[s]) =>
            LET args == LastArchive(s)
                row == Unwrap(StoredRecord(s))
            IN /\ IF IsSome(args.summary)
                  THEN /\ row.total = Clamped(Unwrap(args.summary).total)
                       /\ row.processed = Clamped(Unwrap(args.summary).processed)
                       /\ row.skipped = Clamped(Unwrap(args.summary).skipped)
                       /\ row.failed = Clamped(Unwrap(args.summary).failed)
                  ELSE /\ row.total = Cardinality(StoredFiles(s))
                       /\ row.processed = StoredCount(s, "success")
                       /\ row.skipped = StoredCount(s, "skipped")
                       /\ row.failed = StoredCount(s, "failed")
               /\ FailedErrorsStored(s)

\* a record was archived with a summary whose total is above i32::MAX and
\* with a file_failed outcome whose error is on the file's row
C19_Witness ==
    /\ IsSome(lastArchive[FirstSession])
    /\ IsSome(LastArchive(FirstSession).summary)
    /\ Unwrap(LastArchive(FirstSession).summary).total.hi > 0
    /\ Unwrap(StoredRecord(FirstSession)).total = I32_MAX
    /\ \E row \in StoredFiles(FirstSession) :
          row.status = "failed" /\ row.error = Some("decode")

\* C14: a desktop notification is sent only if notifications are enabled and
\* the OS permission is granted and the preference matching the outcome is
\* set: notify_on_complete, with a completion notification, for exit code 0
\* or 2, and notify_on_error, with a failure notification, for any other.
C14_NotificationOnlyIfAllowed ==
    (IsSome(notifyArgs) /\ notifySent /= "none") =>
        LET args == Unwrap(notifyArgs)
        IN /\ args.prefs.notifications_enabled
           /\ args.permission
           /\ IF args.exit_code \in {0, 2}
              THEN args.prefs.notify_on_complete /\ notifySent = "completion"
              ELSE args.prefs.notify_on_error /\ notifySent = "failure"

\* a completion notification was sent for the partial-success code 2 with
\* notify_on_error switched off
C14_Witness ==
    /\ IsSome(notifyArgs)
    /\ notifySent = "completion"
    /\ Unwrap(notifyArgs).exit_code = 2
    /\ ~Unwrap(notifyArgs).prefs.notify_on_error

\* C15: at every point of generate(), after a failure of any step and after
\* a crash at any point, each final manifest path either does not exist or
\* holds the complete payload of the manifest; what a crash before the rename
\* leaves behind is at most the temporary file.
C15_ManifestNeverPartial ==
    /\ \A s \in SessionIds :
          \/ fs[ManifestPath(s)] = None
          \/ /\ IsSome(genManifest)
             /\ s = GenSessionId
             /\ HoldsComplete(ManifestPath(s), GenPayload)
    /\ \A path \in SessionPaths :
          fs[path] /= None =>
              /\ IsSome(genManifest)
              /\ path \in {ManifestPath(GenSessionId), TmpPath(GenSessionId)}

\* the process crashed while the temporary file was partly written: the
\* temporary file is there, incomplete, and the final path does not exist
C15_Witness ==
    /\ genPc = "crashed"
    /\ fs[ManifestPath(GenSessionId)] = None
    /\ fs[TmpPath(GenSessionId)] /= None
    /\ Unwrap(fs[TmpPath(GenSessionId)]).len = 1

\* a status made of whitespace only, or empty
IsBlank(status) == \A i \in 1..Len(status) : status[i] \in Whitespace

\* C16: after a successful generate() the manifest read back from the returned
\* path has the provider, model, output directory and settings that were
\* passed in and one file per queue item, in order, with the item's id and
\* path and the item's status, "queued" taking the place of an empty or
\* whitespace-only one; the returned session id is the session_id in the file
\* and names the file.
C16_ManifestRoundTrip ==
    (genPc = "done") =>
        LET args == Unwrap(genArgs)
            result == Unwrap(genResult)
            back == DeserializeManifest(Unwrap(fs[result.path]).data)
        IN /\ result.ok
           /\ Unwrap(fs[result.path]).len = PayloadChunks
           /\ back.provider = args.provider
           /\ back.model = args.model
           /\ back.output_dir = args.output_dir
           /\ back.settings = args.settings
           /\ Len(back.files) = Len(args.items)
           /\ \A i \in 1..Len(args.items) :
                /\ back.files[i].id = args.items[i].id
                /\ back.files[i].path = args.items[i].path
                /\ back.files[i].status =
                      IF IsBlank(args.items[i].status)
                      THEN <<"q", "u", "e", "u", "e", "d">>
                      ELSE args.items[i].status
           /\ back.session_id = result.session_id
           /\ result.path = <<"sessions", result.session_id, "json">>

\* generate() succeeded for two items, the first with a whitespace-only status
\* and the second with a padded one
C16_Witness ==
    /\ genPc = "done"
    /\ Len(Unwrap(genArgs).items) = 2
    /\ Unwrap(genArgs).items[1].status = <<"\t", " ">>
    /\ Unwrap(genArgs).items[2].status = <<" ", "d">>
    /\ Unwrap(genArgs).settings.max_retries = 2

\* the stdout lines of s the stream task has taken out of the pipe
ConsumedLines(s) ==
    SubSeq(stdoutWritten[s], 1, Len(stdoutWritten[s]) - Len(stdoutPipe[s]))

\* the events a listener is owed for these lines: nothing for a blank line,
\* the JSON value of a line that is one, the raw-line event of any other line
RECURSIVE ExpectedEvents(_)
ExpectedEvents(lines) ==
    IF lines = <<>> THEN <<>>
    ELSE IF Head(lines).kind = "text" /\ IsBlank(Head(lines).text)
    THEN ExpectedEvents(Tail(lines))
    ELSE IF Head(lines).kind = "json"
    THEN <<Head(lines).value>> \o ExpectedEvents(Tail(lines))
    ELSE <<[event |-> "worker_stdout", line |-> Head(lines).text]>>
            \o ExpectedEvents(Tail(lines))

LifecycleEvents ==
    {"worker_started", "worker_finished", "session_summary", "worker_stopped"}

\* the events of s forwarded from stdout, in emission order
StdoutEvents(s) ==
    SelectSeq(emitted[s], LAMBDA ev : ev.event \notin LifecycleEvents)

\* the stream task of s has left its stdout loop
LoopEnded(s) == streamPc[s] \notin {"none", "reading"}

\* C11: the events forwarded from stdout are, in order and one for one, the
\* non-blank lines the stream task has taken so far; once its loop has ended
\* they are all the non-blank lines the worker wrote, and none of them comes
\* after worker_finished.
C11_ForwardedInOrder ==
    \A s \in SessionIds :
        /\ StdoutEvents(s) = ExpectedEvents(ConsumedLines(s))
        /\ LoopEnded(s) => StdoutEvents(s) = ExpectedEvents(stdoutWritten[s])
        /\ \A i, j \in 1..Len(emitted[s]) :
              (i < j /\ emitted[s][i].event = "worker_finished")
                  => emitted[s][j].event \in LifecycleEvents

\* a line that is neither blank nor the serialisation of a JSON value
Malformed(line) ==
    /\ line.kind /= "json"
    /\ ~(line.kind = "text" /\ IsBlank(line.text))

\* C12: every malformed line the stream task has taken was forwarded as the
\* raw-line event carrying it, and the stdout loop ends only when every line
\* the worker wrote has been taken.
C12_MalformedNeverAborts ==
    \A s \in SessionIds :
        /\ \A i \in 1..Len(ConsumedLines(s)) :
              Malformed(ConsumedLines(s)[i]) =>
                  \E j \in 1..Len(emitted[s]) :
                      emitted[s][j] = [event |-> "worker_stdout",
                                       line |-> ConsumedLines(s)[i].text]
        /\ LoopEnded(s) => stdoutPipe[s] = <<>>

\* C27: worker_started has been emitted for a session only if its worker
\* process was spawned and its ActiveProcess registered, and a launch() that
\* failed to spawn has emitted no worker_started.
C27_StartedAfterSpawnAndRegister ==
    \A s \in SessionIds :
        /\ EventsNamed(s, "worker_started") /= <<>> =>
              /\ proc[s] /= "none"
              /\ streamPc[s] /= "none"
        /\ launchResult[s] = Some(Err(<<"Failed to launch worker">>)) =>
              EventsNamed(s, "worker_started") = <<>>

\* C28: in the exit handling of a session no stop() was attempted on, the
\* archive step comes before worker_finished, worker_finished before
\* session_summary, and the notification step runs only after
\* session_summary was emitted and the slot no longer holds the session.
C28_FinalizationOrder ==
    \A s \in SessionIds :
        stopOutcome[s] = "none" =>
            /\ EventsNamed(s, "worker_finished") /= <<>> =>
                  streamPc[s] \in {"emit_summary", "notify", "clear", "done"}
            /\ \A j \in 1..Len(emitted[s]) :
                  emitted[s][j].event = "session_summary" =>
                      \E i \in 1..(j - 1) : emitted[s][i].event = "worker_finished"
            /\ notified[s] /= "pending" =>
                  /\ EventsNamed(s, "session_summary") /= <<>>
                  /\ ACTIVE_PROCESS /= Some(ActiveProcess(s))

\* C29: a session has at most one session_summary event, exactly one once its
\* stream task has ended or stop() has returned success for it, and a
\* session with a worker_stopped event has no worker_finished event and no
\* session_summary with a status other than cancelled.
C29_OneTerminalState ==
    \A s \in SessionIds :
        /\ Len(EventsNamed(s, "session_summary")) <= 1
        /\ (streamPc[s] = "done" \/ stopOutcome[s] = "ok") =>
              Len(EventsNamed(s, "session_summary")) = 1
        /\ EventsNamed(s, "worker_stopped") /= <<>> =>
              /\ EventsNamed(s, "worker_finished") = <<>>
              /\ \A i \in 1..Len(emitted[s]) :
                    emitted[s][i].event = "session_summary" =>
                        emitted[s][i].status = "cancelled"

\* C30: SIGKILL is sent to a worker only after SIGTERM was, when the polls
\* of the grace period are used up and the last one found the worker still
\* running; and a
\* worker_stopped event has the reason "graceful" exactly when no SIGKILL was
\* sent to the worker.
C30_GracefulBeforeForced ==
    /\ [](\A s \in SessionIds :
            /\ "KILL" \in signals[s] => "TERM" \in signals[s]
            /\ \A i \in 1..Len(emitted[s]) :
                  emitted[s][i].event = "worker_stopped" =>
                      (emitted[s][i].reason = "graceful" <=> "KILL" \notin signals[s]))
    /\ [][\A s \in SessionIds :
            ("KILL" \notin signals[s] /\ "KILL" \in signals'[s]) =>
                /\ "TERM" \in signals[s]
                /\ stopPolls >= GracePolls
                /\ stopPc = "force_kill"]_vars

KnownProviderIds ==
    {COREML_PROVIDER_ID, LEGACY_COREML_PROVIDER_ID, WHISPER_OPENAI_PROVIDER_ID,
     FASTER_WHISPER_PROVIDER_ID}

\* a model string that is empty, all whitespace, or has "..", "/" or "\"
\* somewhere
Rejected(model) ==
    \/ \A i \in 1..Len(model) : model[i] \in Whitespace
    \/ Contains(model, <<".", ".">>)
    \/ Contains(model, <<"/">>)
    \/ Contains(model, <<"\\">>)

\* result is the failure with this error
Fails(result, error) ==
    /\ ~result.ok
    /\ result.runtime = None
    /\ Unwrap(result.error).kind = error.kind
    /\ Unwrap(result.error).value = error.value

\* C21: with the availability check requested, a runtime is returned only if
\* the registry's check of it passes on this machine, and a call with a
\* valid model and a known id whose runtime does not pass fails with
\* Unavailable carrying the id as the caller gave it.
C21_UnavailableNeverReturned ==
    (IsSome(resolveCall) /\ Unwrap(resolveCall).settings.check_availability) =>
        LET call == Unwrap(resolveCall)
            native == NormalizeProviderId(call.id) = COREML_PROVIDER_ID
            usable == IF native
                      THEN /\ call.env.binary = "executable"
                           /\ call.env.capability_output = Some("object")
                      ELSE call.env.uv
        IN /\ call.result.ok =>
                 CheckAvailable(Unwrap(call.result.runtime), call.env)
           /\ (call.id \in KnownProviderIds /\ ~Rejected(call.model)) =>
                 IF usable
                 THEN call.result.ok
                 ELSE Fails(call.result, Unavailable(call.id))

\* the legacy provider id was resolved with the check requested while the
\* worker binary is missing: Unavailable names the legacy id
C21_Witness ==
    /\ IsSome(resolveCall)
    /\ Unwrap(resolveCall).id = LEGACY_COREML_PROVIDER_ID
    /\ Unwrap(resolveCall).settings.check_availability
    /\ Unwrap(resolveCall).env.binary = "missing"
    /\ Fails(Unwrap(resolveCall).result, Unavailable(LEGACY_COREML_PROVIDER_ID))

\* the models root of a resolve_provider call
ModelsRootOf(call) ==
    UnwrapOr(call.settings.models_root_override, DefaultModelsRoot)

\* dir is root with one more component, which is not ".."
IsDirectChild(dir, root) ==
    /\ Len(dir) = Len(root) + 1
    /\ SubSeq(dir, 1, Len(root)) = root
    /\ dir[Len(dir)] /= <<".", ".">>

\* C22 as stated: a rejected model string makes resolve_provider fail with
\* InvalidModel carrying it, whatever the provider id, and the model
\* directory of every native-binary runtime returned is a direct child of
\* the models root.
C22_ModelDirDirectChild ==
    IsSome(resolveCall) =>
        LET call == Unwrap(resolveCall)
        IN /\ Rejected(call.model) =>
                 Fails(call.result, InvalidModel(call.model))
           /\ (call.result.ok /\ Unwrap(call.result.runtime).type = "SwiftNative") =>
                 IsDirectChild(Unwrap(call.result.runtime).model_dir,
                               ModelsRootOf(call))

\* C22 amended: a rejected model string makes resolve_provider fail with
\* InvalidModel carrying it, whatever the provider id, and the model
\* directory of every native-binary runtime returned is the models root
\* itself when the trimmed model is "." and a direct child of the models
\* root otherwise.
C22_ModelDirInsideRoot ==
    IsSome(resolveCall) =>
        LET call == Unwrap(resolveCall)
        IN /\ Rejected(call.model) =>
                 Fails(call.result, InvalidModel(call.model))
           /\ (call.result.ok /\ Unwrap(call.result.runtime).type = "SwiftNative") =>
                 IF Trim(call.model) = <<".">>
                 THEN Unwrap(call.result.runtime).model_dir = ModelsRootOf(call)
                 ELSE IsDirectChild(Unwrap(call.result.runtime).model_dir,
                                    ModelsRootOf(call))

\* the model " . " was resolved for the native-binary provider: the runtime
\* returned has the models root as its model directory
C22_Witness ==
    /\ IsSome(resolveCall)
    /\ Unwrap(resolveCall).model = <<" ", ".", " ">>
    /\ Unwrap(resolveCall).result.ok
    /\ Unwrap(Unwrap(resolveCall).result.runtime).type = "SwiftNative"
    /\ Unwrap(Unwrap(resolveCall).result.runtime).model_dir = ModelsRoot

\* C23 as stated: a provider id that is not known fails with NotFound
\* carrying the id as passed, whatever the model string.
C23_NotFoundWhateverModel ==
    (IsSome(resolveCall) /\ Unwrap(resolveCall).id \notin KnownProviderIds) =>
        Fails(Unwrap(resolveCall).result, NotFound(Unwrap(resolveCall).id))

\* C23 amended: a provider id that is not known fails with NotFound carrying
\* the id as passed when the model string passes validation, and with
\* InvalidModel carrying the model string when it does not.
C23_NotFoundForValidModel ==
    (IsSome(resolveCall) /\ Unwrap(resolveCall).id \notin KnownProviderIds) =>
        LET call == Unwrap(resolveCall)
        IN IF Rejected(call.model)
           THEN Fails(call.result, InvalidModel(call.model))
           ELSE Fails(call.result, NotFound(call.id))

\* an unknown provider id was resolved with the model "v3" and without the
\* availability check: NotFound names it
C23_Witness ==
    /\ IsSome(resolveCall)
    /\ Unwrap(resolveCall).id = "unknown-provider"
    /\ Unwrap(resolveCall).model = <<"v", "3">>
    /\ ~Unwrap(resolveCall).settings.check_availability
    /\ Fails(Unwrap(resolveCall).result, NotFound("unknown-provider"))

\* the errors of the resolver: invalid model, unknown provider, unavailable
\* runtime
ResolverCauses == {"InvalidModel", "NotFound", "Unavailable"}

\* C24: a start_transcription call that returned a configuration or
\* availability error has left everything as it was when it was called: the
\* manifest files, the worker processes, the slot, the events of every
\* session and the directories that exist.
C24_ConfigErrorNoSideEffects ==
    (start.pc = "idle" /\ start.cause \in ResolverCauses) =>
        /\ ~Unwrap(start.result).ok
        /\ fs = Unwrap(start.before).fs
        /\ proc = Unwrap(start.before).proc
        /\ ACTIVE_PROCESS = Unwrap(start.before).slot
        /\ emitted = Unwrap(start.before).emitted
        /\ outputDirs = Unwrap(start.before).dirs

\* C25: every probe that has been called returns: the thread that probes is
\* never left waiting forever for a probed program that does not exit.
C25_ProbeReturns == (probe.pc /= "idle") ~> (probe.pc = "idle")


\* C31: the lock on the process handle of a session is never held by a
\* thread that is blocked waiting for the process to exit: whenever the lock
\* is held, the process has exited, so the wait under it returns at once.
C31_LockNotHeldAcrossWait ==
    \A s \in SessionIds : childLock[s] /= "free" => proc[s] = "exited"

\* the events of s forwarded from stderr, in emission order
StderrEvents(s) ==
    SelectSeq(emitted[s], LAMBDA ev : ev.event = "worker_stderr")

\* the events of s forwarded from stdout when stderr is forwarded as well
StdoutOnlyEvents(s) ==
    SelectSeq(StdoutEvents(s), LAMBDA ev : ev.event /= "worker_stderr")

\* C32: every stdout line the worker has written is eventually taken and
\* forwarded, whatever the stderr thread does, and the worker_stderr events
\* are, one for one and in order, the stderr lines the stderr thread has taken.
C32_StdoutNeverWaitsOnStderr ==
    /\ \A n \in 1..MaxPipeLines :
          (Len(stdoutWritten[FirstSession]) >= n)
              ~> /\ Len(ConsumedLines(FirstSession)) >= n
                 /\ StdoutOnlyEvents(FirstSession) =
                        ExpectedEvents(ConsumedLines(FirstSession))
    /\ [](\A s \in SessionIds :
              StderrEvents(s) =
                  [i \in 1..Len(stderrTask[s].taken) |->
                      [event |-> "worker_stderr",
                       line |-> stderrTask[s].taken[i].text]])

ManifestOnDisk(s) == HoldsComplete(ManifestPath(s), "manifest")

\* C34: the manifest of a session for which a worker was spawned is on disk,
\* whatever has happened to the session since, and a step that removes a
\* manifest is the return of a launch() that failed without having spawned
\* a worker for that session.
C34_ManifestKept ==
    /\ [](\A s \in SessionIds : proc[s] /= "none" => ManifestOnDisk(s))
    /\ [][\A s \in SessionIds :
            (ManifestOnDisk(s) /\ ~ManifestOnDisk(s)') =>
                /\ proc'[s] = "none"
                /\ IsSome(launchResult'[s])
                /\ ~Unwrap(launchResult'[s]).ok]_vars

\* the worker of the first session was stopped, its cancelled record was
\* written and then deleted from the history, and the manifest is still there
C34_Witness ==
    /\ proc[FirstSession] = "exited"
    /\ stopOutcome[FirstSession] = "ok"
    /\ IsSome(deletes.last)
    /\ Unwrap(deletes.last) = [session_id |-> FirstSession, ok |-> TRUE]
    /\ archiveLog[FirstSession] /= <<>>
    /\ ~IsSome(StoredRecord(FirstSession))
    /\ ManifestOnDisk(FirstSession)


\* ---------------------------------------------------------------- C35
IsEvent(line, names) ==
    /\ line.kind = "json"
    /\ "event" \in DOMAIN line.value
    /\ line.value.event \in names

IsFatalWithString(line) ==
    IsEvent(line, {"fatal_error"}) /\ "error" \in DOMAIN line.value

IsOutcomeOf(line, path) ==
    /\ IsEvent(line, {"file_done", "file_skipped", "file_failed"})
    /\ "file" \in DOMAIN line.value
    /\ line.value.file = path

\* the position of the last line that satisfies P, 0 when none does
LastIndex(lines, P(_)) ==
    LET hits == {i \in 1..Len(lines) : P(lines[i])}
    IN IF hits = {} THEN 0 ELSE CHOOSE i \in hits : \A j \in hits : j <= i

OutcomePaths(lines) ==
    {path \in Files : LastIndex(lines, LAMBDA l : IsOutcomeOf(l, path)) > 0}

LastSummary(lines) ==
    LET i == LastIndex(lines, LAMBDA l : IsEvent(l, {"summary"}))
    IN IF i = 0 THEN None
       ELSE Some([total |-> lines[i].value.total,
                  processed |-> lines[i].value.processed,
                  skipped |-> lines[i].value.skipped,
                  failed |-> lines[i].value.failed])

LastFatalError(lines) ==
    LET i == LastIndex(lines, IsFatalWithString)
    IN IF i = 0 THEN None ELSE Some(lines[i].value.error)

LastOutcomes(lines) ==
    [path \in OutcomePaths(lines) |->
        Unwrap(ParseFileOutcome(
            lines[LastIndex(lines, LAMBDA l : IsOutcomeOf(l, path))].value))[2]]

\* the next line of s is an outcome event equal to the one that last set the
\* outcome of its path
ReplaysOutcome(s) ==
    /\ stdoutPipe[s] /= <<>>
    /\ LET line == Head(stdoutPipe[s])
           lines == ConsumedLines(s)
       IN /\ IsEvent(line, {"file_done", "file_skipped", "file_failed"})
          /\ "file" \in DOMAIN line.value
          /\ line.value.file \in OutcomePaths(lines)
          /\ lines[LastIndex(lines, LAMBDA l : IsOutcomeOf(l, line.value.file))]
                = line

\* C35: after any sequence of stdout lines the stream task has taken, the
\* retained summary is that of the last summary event, the retained fatal
\* error is that of the last fatal_error event with an error string, the
\* outcome stored for a path is that of the last file_done / file_skipped /
\* file_failed event naming the path, and taking an outcome event equal to
\* the one that last set its path leaves the map unchanged.
C35_LastOccurrenceWins ==
    /\ [](\A s \in SessionIds :
            /\ latest_summary[s] = LastSummary(ConsumedLines(s))
            /\ fatal_error[s] = LastFatalError(ConsumedLines(s))
            /\ file_outcomes[s] = LastOutcomes(ConsumedLines(s)))
    /\ [][\A s \in SessionIds :
            (ReplaysOutcome(s) /\ stdoutPipe'[s] = Tail(stdoutPipe[s]))
                => file_outcomes'[s] = file_outcomes[s]]_vars

\* the stream task has taken file_done for f1 and then file_failed for f1
\* twice, and holds the failed outcome for f1
C35_Witness ==
    LET lines == ConsumedLines(FirstSession)
    IN /\ Len(lines) = 3
       /\ IsEvent(lines[1], {"file_done"}) /\ IsOutcomeOf(lines[1], "f1")
       /\ IsEvent(lines[2], {"file_failed"}) /\ lines[3] = lines[2]
       /\ IsOutcomeOf(lines[2], "f1")
       /\ DOMAIN file_outcomes[FirstSession] = {"f1"}
       /\ file_outcomes[FirstSession]["f1"].status = "failed"

\* ---------------------------------------------------------------- C36
\* the record list() has built for a session row is the whole record of that
\* session in db
CompleteIn(entry, db) ==
    /\ entry.row \in db.sessions
    /\ entry.files = {f \in db.session_files : f.session_id = entry.row.id}

\* C36: an archive() that fails at any step leaves the store as it was before
\* the call, no other connection reads the rows of an archive() before its
\* commit, and every record a list() builds while an archive() runs is the
\* complete record of its session as stored before the list() began or as
\* stored now.
C36_ArchiveAtomic ==
    /\ [](/\ txn.pc /= "idle" => Visible(history, txn) = txn.before
          /\ listing.pc /= "idle" =>
                \A i \in 1..Len(listing.result) :
                    \/ CompleteIn(listing.result[i], listing.at)
                    \/ CompleteIn(listing.result[i], history))
    /\ [][(txn' /= txn /\ txn'.result = Some(FALSE)) => history' = history]_vars

\* a list() has built the record of the first session, files included, while
\* a second archive() of that session has replaced the session row and
\* cleared the file rows inside its transaction
C36_Witness ==
    /\ listing.pc = "rows"
    /\ \E i \in 1..Len(listing.result) :
         /\ listing.result[i].row.id = FirstSession
         /\ listing.result[i].files /= {}
         /\ listing.result[i].row.status = "completed"
    /\ txn.pc = "files"
    /\ txn.id = FirstSession
    /\ Unwrap(txn.in).status = "cancelled"
    /\ txn.db /= history
    /\ \E r \in txn.before.sessions : r.id = FirstSession

\* ---------------------------------------------------------------- C37
\* C37: a step of the stream task of a session taken while the slot holds
\* another session leaves the slot as it is; in particular the exit handling
\* of A, running after stop(A) has cleared the slot and launch(B) has
\* registered B, does not clear or alter the ActiveSession of B.
C37_LateStreamKeepsSlot ==
    [][\A s \in SessionIds :
          (/\ streamPc[s] /= "none"
           /\ streamPc'[s] /= streamPc[s]
           /\ IsSome(ACTIVE_PROCESS)
           /\ Unwrap(ACTIVE_PROCESS).session_id /= s)
              => ACTIVE_PROCESS' = ACTIVE_PROCESS]_vars

\* stop(A) has cleared the slot, launch(B) has registered B, and the stream
\* task of A has reached its clear_active_session_if_matches call
C37_Witness ==
    /\ ACTIVE_PROCESS = Some(ActiveProcess("B"))
    /\ streamPc["A"] = "clear"
    /\ stopCalls > 0

\* ---------------------------------------------------------------- C38
\* C38: a session that the stream task has archived as completed or failed
\* after its worker exited by itself keeps a stored record whose status is
\* not "cancelled", whatever stop() call arrives afterwards.
C38_NotReRecordedAsCancelled ==
    \A s \in SessionIds :
        (archiveLog[s] /= <<>> /\ archiveLog[s][1] \in {"completed", "failed"})
            => (IsSome(StoredRecord(s)) =>
                    Unwrap(StoredRecord(s)).status /= "cancelled")

\* ---------------------------------------------------------------- C39
\* stop() for s is in progress and one of its polls has found the worker
\* still running after the signal was sent
StopSawRunning(s) ==
    /\ stopPc /= "idle"
    /\ stopReq = s
    /\ stopPolls > 0

\* C39: the stream task of a session whose running worker stop() has
\* signalled dispatches neither a completion nor a failure notification for
\* it.
C39_NoNotificationAfterStop ==
    [][\A s \in SessionIds :
          (StopSawRunning(s) /\ notified[s] = "pending")
              => notified'[s] \in {"pending", "none"}]_vars

\* ---------------------------------------------------------------- C40
\* the last component of the model directory of a native runtime
ResolvedFolder(runtime) == runtime.model_dir[Len(runtime.model_dir)]

\* C40: for a native runtime that resolve() returned, the --model-version
\* argument is "v2" exactly when the resolved model folder is the v2 folder,
\* and "v3" when it is the v3 folder, whatever the models root.
C40_ModelVersionMatchesFolder ==
    (/\ IsSome(resolveCall)
     /\ "args" \in DOMAIN Unwrap(resolveCall)
     /\ Unwrap(resolveCall).result.ok) =>
        LET call == Unwrap(resolveCall)
            folder == ResolvedFolder(Unwrap(call.result.runtime))
            version == call.args[2].value
        IN /\ version = "v2" <=> folder = COREML_V2_FOLDER
           /\ folder = COREML_V3_FOLDER => version = "v3"
====
